---- MODULE Spec2Model ----
(***************************************************************************)
(* A model of the Live Client core of py-hftbacktest                       *)
(* (hftbacktest/live/client.py, models.py, stub.py): the client facade     *)
(* and its lifecycle, the feed ingestion worker, the health monitor        *)
(* worker and the order gateway, over a Bot that behaves in any way the    *)
(* interface allows.                                                       *)
(*                                                                         *)
(* Threads: the caller threads (Callers), and one feed worker and one      *)
(* health worker per successful start() (a "generation").  A worker that   *)
(* stop() abandoned stays in the model next to the workers of a later      *)
(* start().                                                                *)
(***************************************************************************)
EXTENDS Integers, Sequences, FiniteSets, TLC

\* ------------------------------------------------------------------ bounds
\* Each specification below fixes its own envelope (cfg) from these.
MaxStarts == 2      \* successful start() calls, i.e. worker generations
NumAssets == 2      \* bot.num_assets where assets matter
MaxEvents == 3      \* raw events the Bot reports over a behaviour
MaxPasses == 3      \* health sampling passes that publish
MaxAlloc  == 3      \* auto-assigned order ids
MaxCap    == 2      \* largest configured channel capacity
LifeAssets == 1     \* bot.num_assets of the lifecycle specification
LifeEvents == 1     \* raw events of the lifecycle specification
LifePasses == 2     \* publishing passes of the lifecycle specification
OneStart   == 1     \* start() calls where restarts do not matter
MaxOrderId == 2     \* largest order id a caller passes itself
MaxPosition == 2    \* largest size of the synthetic Bot's position
MaxGets == 3        \* reads that return an event, where their history is kept
MaxLevels == 3      \* levels in a depth listing
MaxPrice == 2       \* prices of the levels are 1..MaxPrice
MaxQty == 2         \* quantities of the levels are 0..MaxQty
MaxEv == 7          \* event-type values of a raw event are 0..MaxEv
MaxStamp == 2       \* timestamps of a raw event are 1..MaxStamp
MaxPolls == 2       \* polls of each stub instance in the seed test
ErrEvents == 2      \* raw events of the Bot under the error callback
MaxSpawns == 3      \* connector processes a runner spawns
MaxErrors == 2      \* invocations of on_error after which the Bot reports no more errors

Callers == {"c1", "c2"}
Gens    == 1..MaxStarts
NoThread == 0

\* Optional[...] of the source: None is the empty tuple, a value v is <<v>>.
None == <<>>
Some(v) == <<v>>

VARIABLES
    cfg,            \* constructor arguments and the Bot's envelope; never changes
    running,        \* self._running
    stopEvent,      \* self._stop_event
    feedThread,     \* self._feed_thread   (generation, NoThread = None)
    healthThread,   \* self._health_thread (generation, NoThread = None)
    fpc,            \* feed worker of each generation: where it is
    fasset,         \* feed worker: asset_no of _process_market_feed
    fbuf,           \* feed worker: trades (the list last_trades returned)
    fidx,           \* feed worker: i, 1-based
    hpc,            \* health worker of each generation: where it is
    hnew,           \* health worker: the snapshot its pass computed
    health,         \* self._health
    healthLock,     \* self._lock: NoThread, or the generation holding it
    hsamp,          \* history: what the accessors gave the worker's last pass
    published,      \* history: every snapshot a pass computed and published
    lostEdges,      \* history: connected true -> false changes of self._health
    lostCalls,      \* history: invocations of on_connection_lost
    tradeQ, bookQ, snapQ,   \* the three channels
    dropped,        \* history: ids of the events a full channel dropped
    consumed,       \* history: what the reads of each channel returned, in order
    raw,            \* the Bot's raw event buffer of each asset
    botEvents,      \* history: raw events the Bot has reported
    botClosed,      \* the Bot's close() has been called
    botOrders,      \* the synthetic Bot's _orders
    botPosition,    \* the synthetic Bot's _position
    nextOrderId,    \* self._next_order_id
    orderIdLock,    \* self._order_id_lock: "free", or the caller holding it
    allocated,      \* history: ids _generate_order_id handed out, in order
    usedIds,        \* history: order ids earlier submit_order calls gave the Bot
    call,           \* each caller thread: the call it is in
    stubBots,       \* the StubConnectorBot instances of a test of the stub
    rng,            \* the random module's shared generator
    test,           \* the test function that drives the stub instances
    errorCalls,     \* history: invocations of on_error by the feed workers
    lastResult,     \* history: what each feed worker's last wait_next_feed returned
    pushedOnce,     \* history: ids of the raw events a push was attempted for
    pushedAgain,    \* history: ids of those a push was attempted for more than once
    process,        \* ConnectorRunner.process: None, or the handle (pid) of a child
    procs,          \* the connector processes spawned: "running" or "exited", by pid
    signals         \* history: the signals the runner sent to each process, in order

clientVars == <<running, stopEvent, feedThread, healthThread>>
feedVars   == <<fpc, fasset, fbuf, fidx>>
healthVars == <<hpc, hnew, hsamp, health, healthLock, published, lostEdges, lostCalls>>
chanVars   == <<tradeQ, bookQ, snapQ, dropped, consumed>>
botVars    == <<raw, botEvents, botClosed, botOrders, botPosition>>
orderVars  == <<nextOrderId, orderIdLock, allocated, usedIds>>
stubVars   == <<stubBots, rng, test>>
errVars    == <<errorCalls, lastResult>>
pushVars   == <<pushedOnce, pushedAgain>>
histVars   == <<errVars, pushVars>>
runnerVars == <<process, procs, signals>>
vars == <<cfg, clientVars, feedVars, healthVars, chanVars, botVars, orderVars, call,
          stubVars, histVars, runnerVars>>

\* range(num_assets)
Assets == 0..(cfg.num_assets - 1)

\* ------------------------------------------------------------ event models
\* EventType of models.py; the package constants of the same names that
\* client.py imports carry these values.
DEPTH_EVENT          == 1
TRADE_EVENT          == 2
DEPTH_CLEAR_EVENT    == 3
DEPTH_SNAPSHOT_EVENT == 4
DEPTH_BBO_EVENT      == 5

RECURSIVE BitAnd(_, _)
BitAnd(a, b) ==
    IF a = 0 \/ b = 0 THEN 0
    ELSE (IF a % 2 = 1 /\ b % 2 = 1 THEN 1 ELSE 0) + 2 * BitAnd(a \div 2, b \div 2)

RECURSIVE BitOr(_, _)
BitOr(a, b) ==
    IF a = 0 THEN b
    ELSE IF b = 0 THEN a
    ELSE (IF a % 2 = 1 \/ b % 2 = 1 THEN 1 ELSE 0) + 2 * BitOr(a \div 2, b \div 2)

\* The if / elif chain of _process_market_feed: the channel an event goes to.
Classify(ev) ==
    IF BitAnd(ev, TRADE_EVENT) # 0 THEN "trade"
    ELSE IF BitAnd(ev, BitOr(DEPTH_EVENT, DEPTH_BBO_EVENT)) # 0 THEN "book"
    ELSE IF BitAnd(ev, DEPTH_SNAPSHOT_EVENT) # 0 THEN "snapshot"
    ELSE "none"

\* queue.Queue: maxsize <= 0 is an unbounded queue.
QueueFull(q, maxsize) == maxsize > 0 /\ Len(q) >= maxsize

\* (mutant) the push ignores the capacity.
PutAlways(q, maxsize, item) == Append(q, item)

\* put_nowait inside try / bare except: a full queue drops the item.
PutNowait(q, maxsize, item) == IF QueueFull(q, maxsize) THEN q ELSE Append(q, item)

\* ConnectionHealth(connected=False) of __init__; pass is history: the number
\* of the sampling pass that built the snapshot (0: the constructor).
InitialHealth ==
    [connected |-> FALSE, feed_latency_ns |-> None, order_latency_ns |-> None,
     last_feed_time |-> None, last_order_time |-> None, pass |-> 0]

\* ------------------------------------------------------ feed ingestion worker
\* threading.Thread.is_alive of a feed worker: "done" left the loop, "dead"
\* was ended by an exception that escaped _feed_worker.
FeedAlive(g) == fpc[g] \in {"loop", "wait", "proc"}

\* The worker is inside the Bot's wait_next_feed, which may take up to
\* feed_timeout_ns (10 s by default) and more than a join's bound.
FeedBlocked(g) == fpc[g] = "wait"

\* (mutant) the loop of _feed_worker is "while True".
FeedLoopIgnoresStop(g) ==
    /\ fpc[g] = "loop"
    /\ fpc' = [fpc EXCEPT ![g] = "wait"]
    /\ UNCHANGED <<cfg, runnerVars, stubVars, histVars, clientVars, fasset, fbuf, fidx, healthVars, chanVars,
                   botVars, orderVars, call>>

\* while not self._stop_event.is_set(): ... self._bot.wait_next_feed(...)
FeedLoop(g) ==
    /\ fpc[g] = "loop"
    /\ fpc' = [fpc EXCEPT ![g] = IF stopEvent THEN "done" ELSE "wait"]
    /\ UNCHANGED <<cfg, runnerVars, stubVars, histVars, clientVars, fasset, fbuf, fidx, healthVars, chanVars,
                   botVars, orderVars, call>>

\* _on_error after an unrecognised return code, inside the try: an exception
\* of the callback is caught by the except clause, which calls it again.
AfterErrorCode(cb1, cb2) ==
    IF ~cfg.on_error THEN "loop"
    ELSE IF ~cb1 THEN "loop"
    ELSE IF cb2 THEN "dead" ELSE "loop"

\* The except clause of _feed_worker: an exception of the callback escapes.
AfterException(cb) ==
    IF cfg.on_error /\ cb THEN "dead" ELSE "loop"

\* The invocations of on_error that follow a return r of wait_next_feed, where
\* cb1 says that the first of them raises.
ErrorCalls(r, cb1) ==
    IF ~cfg.on_error \/ r \in {0, 1, 2, 3} THEN 0
    ELSE IF r = -1 THEN 1
    ELSE IF cb1 THEN 2 ELSE 1

\* Whether the specification keeps the history of what the reads returned.
History == "history" \in DOMAIN cfg /\ cfg.history

\* A specification that follows the error callback bounds the errors of the
\* Bot by the invocations it has seen.
ErrorsCounted == "maxErrors" \in DOMAIN cfg

\* (mutant) a return of 1 is taken for a timeout: the worker polls again.
EndOfDataIgnored(g, r, cb1, cb2) ==
    /\ fpc' = [fpc EXCEPT ![g] =
                 CASE r \in {0, 1, 3} -> "loop"
                   [] r = 2 -> "proc"
                   [] r = -1 -> AfterException(cb1)
                   [] OTHER -> AfterErrorCode(cb1, cb2)]
    /\ IF r = 2
       THEN /\ fasset' = [fasset EXCEPT ![g] = 0]
            /\ fbuf' = [fbuf EXCEPT ![g] = raw'[0]]
            /\ fidx' = [fidx EXCEPT ![g] = 1]
       ELSE UNCHANGED <<fasset, fbuf, fidx>>

\* wait_next_feed returns r (-1: it raises) and _feed_worker dispatches on it.
\* While it waited the Bot may have appended one raw event to an asset's
\* buffer.
FeedDispatch(g, r, cb1, cb2) ==
    /\ fpc' = [fpc EXCEPT ![g] =
                 CASE r = 0 -> "loop"
                   [] r = 1 -> "done"
                   [] r = 2 -> "proc"
                   [] r = 3 -> "loop"
                   [] r = -1 -> AfterException(cb1)
                   [] OTHER -> AfterErrorCode(cb1, cb2)]
    /\ IF r = 2
       THEN /\ fasset' = [fasset EXCEPT ![g] = 0]
            /\ fbuf' = [fbuf EXCEPT ![g] = raw'[0]]
            /\ fidx' = [fidx EXCEPT ![g] = 1]
       ELSE UNCHANGED <<fasset, fbuf, fidx>>

FeedWaitReturn(g) ==
    /\ fpc[g] = "wait"
    /\ \/ UNCHANGED <<raw, botEvents>>
       \/ /\ botEvents < cfg.maxEvents
          /\ \E a \in Assets, e \in cfg.evCodes, b \in cfg.badEvents :
                raw' = [raw EXCEPT ![a] =
                          Append(@, [ev |-> e, id |-> botEvents + 1, bad |-> b])]
          /\ botEvents' = botEvents + 1
    /\ \E r \in cfg.waitResults, cb1 \in cfg.cbRaises, cb2 \in cfg.cbRaises :
          /\ FeedDispatch(g, r, cb1, cb2)
          /\ IF ErrorsCounted
             THEN /\ r \notin {0, 1, 2, 3} => errorCalls < cfg.maxErrors
                  /\ errorCalls' = errorCalls + ErrorCalls(r, cb1)
                  /\ lastResult' = [lastResult EXCEPT ![g] = r]
             ELSE UNCHANGED errVars
    /\ UNCHANGED <<cfg, runnerVars, stubVars, pushVars, clientVars, healthVars, chanVars, botClosed,
                   botOrders, botPosition, orderVars, call>>

\* The asset loop of _process_market_feed moves on: the next asset's buffer is
\* fetched, or the pass is over and the worker is back at its loop.
FeedNextAsset(g, rawNow) ==
    IF fasset[g] + 1 < cfg.num_assets
    THEN /\ fasset' = [fasset EXCEPT ![g] = @ + 1]
         /\ fbuf' = [fbuf EXCEPT ![g] = rawNow[fasset[g] + 1]]
         /\ fidx' = [fidx EXCEPT ![g] = 1]
         /\ UNCHANGED fpc
    ELSE /\ fpc' = [fpc EXCEPT ![g] = "loop"]
         /\ fasset' = [fasset EXCEPT ![g] = 0]
         /\ fbuf' = [fbuf EXCEPT ![g] = <<>>]
         /\ fidx' = [fidx EXCEPT ![g] = 1]

\* (mutant) an exception while an asset is processed ends the pass.
AssetErrorEndsPass(g, rawNow) ==
    /\ fpc' = [fpc EXCEPT ![g] = "loop"]
    /\ fasset' = [fasset EXCEPT ![g] = 0]
    /\ fbuf' = [fbuf EXCEPT ![g] = <<>>]
    /\ fidx' = [fidx EXCEPT ![g] = 1]

\* except Exception inside "for asset_no in range(num_assets)": the exception
\* is logged and the loop goes on with the next asset.
AfterAssetError(g, rawNow) == FeedNextAsset(g, rawNow)

\* (mutant) a reader that waits on a channel holds the channel's mutex.
PushBlocksWhileReaderWaits(q, maxsize) == \E c \in Callers : call[c].pc = "get_wait"

\* (mutant) the push is a blocking put: it waits while the channel is full.
PushBlocksOnFull(q, maxsize) == QueueFull(q, maxsize)

\* Whether the push has to wait before it can go on: put_nowait never waits.
PushWaits(q, maxsize) == FALSE

\* The typed value built from raw event e of asset a.
Typed(e, a) == [id |-> e.id, ev |-> e.ev, asset_no |-> a]

\* One iteration of "for i in range(len(trades))": classify, build, push.
\* An event whose processing raises (from_event on a malformed event, or the
\* Bot's depth accessor) ends the asset's try block: the buffer is not cleared.
FeedEvent(g) ==
    /\ fpc[g] = "proc"
    /\ fidx[g] <= Len(fbuf[g])
    /\ LET e == fbuf[g][fidx[g]]
           a == fasset[g]
           k == Classify(e.ev)
       IN IF e.bad /\ k # "none"
          THEN /\ AfterAssetError(g, raw)
               /\ UNCHANGED <<chanVars, pushVars>>
          ELSE /\ k = "trade" => ~PushWaits(tradeQ, cfg.trade_queue_size)
               /\ k = "book" => ~PushWaits(bookQ, cfg.book_queue_size)
               /\ k = "snapshot" => ~PushWaits(snapQ, cfg.snapshot_queue_size)
               /\ dropped' =
                     IF \/ k = "trade" /\ QueueFull(tradeQ, cfg.trade_queue_size)
                        \/ k = "book" /\ QueueFull(bookQ, cfg.book_queue_size)
                        \/ k = "snapshot" /\ QueueFull(snapQ, cfg.snapshot_queue_size)
                     THEN dropped \cup {e.id}
                     ELSE dropped
               /\ tradeQ' = IF k = "trade"
                            THEN PutNowait(tradeQ, cfg.trade_queue_size, Typed(e, a))
                            ELSE tradeQ
               /\ bookQ' = IF k = "book"
                           THEN PutNowait(bookQ, cfg.book_queue_size, Typed(e, a))
                           ELSE bookQ
               /\ snapQ' = IF k = "snapshot"
                           THEN PutNowait(snapQ, cfg.snapshot_queue_size, Typed(e, a))
                           ELSE snapQ
               /\ fidx' = [fidx EXCEPT ![g] = @ + 1]
               /\ IF History /\ k # "none"
                  THEN /\ pushedOnce' = pushedOnce \cup {e.id}
                       /\ pushedAgain' = pushedAgain \cup ({e.id} \cap pushedOnce)
                  ELSE UNCHANGED pushVars
               /\ UNCHANGED <<fpc, fasset, fbuf, consumed>>
    /\ UNCHANGED <<cfg, runnerVars, stubVars, errVars, clientVars, healthVars, botVars, orderVars, call>>

\* self._bot.clear_last_trades(asset_no) after the event loop.
FeedClear(g) ==
    /\ fpc[g] = "proc"
    /\ fidx[g] > Len(fbuf[g])
    /\ raw' = [raw EXCEPT ![fasset[g]] = <<>>]
    /\ FeedNextAsset(g, raw')
    /\ UNCHANGED <<cfg, runnerVars, stubVars, histVars, clientVars, healthVars, chanVars, botEvents, botClosed,
                   botOrders, botPosition, orderVars, call>>

\* ------------------------------------------------------ health monitor worker
HealthAlive(g) == hpc[g] \in {"loop", "publish", "callback"}

\* The worker is inside on_connection_lost (user code), or waits for
\* self._lock while another thread holds it.
HealthBlocked(g) ==
    \/ hpc[g] = "callback"
    \/ hpc[g] = "publish" /\ healthLock # NoThread

\* What the Bot's latency accessors give for asset a when they give a sample:
\* (exch_ts, local_ts) and (req_ts, exch_ts, resp_ts).
FeedLatencySample(a)  == <<10, 11 + a>>
OrderLatencySample(a) == <<10, 12, 13 + a>>

\* What sampling asset a can do: feed_latency raises, or returns None or a
\* sample; then order_latency raises, or returns None or a sample.
SampleOutcomes(a) ==
    {[feedRaise |-> TRUE, feed |-> None, orderRaise |-> FALSE, order |-> None]
        : x \in {r \in cfg.sampleRaises : r}}
    \cup
    {[feedRaise |-> FALSE, feed |-> f, orderRaise |-> r, order |-> IF r THEN None ELSE o]
        : f \in {None} \cup {Some(FeedLatencySample(a)) : x \in cfg.feedSampled},
          r \in cfg.sampleRaises,
          o \in {None} \cup {Some(OrderLatencySample(a)) : x \in cfg.orderSampled}}

\* (mutant) connected is set at the end of the asset's try block, after the
\* order latency has been read.
SampleAssetConnectsLast(acc, o) ==
    IF o.feedRaise THEN acc
    ELSE LET withFeed ==
                 IF o.feed # None
                 THEN [acc EXCEPT !.connected = @ \/ ~o.orderRaise,
                                  !.feed_latency_ns = Some(o.feed[1][2] - o.feed[1][1]),
                                  !.last_feed_time = Some(o.feed[1][2])]
                 ELSE acc
         IN IF o.orderRaise \/ o.order = None
            THEN withFeed
            ELSE [withFeed EXCEPT
                    !.order_latency_ns = Some(o.order[1][3] - o.order[1][1]),
                    !.last_order_time = Some(o.order[1][3])]

\* The body of "for asset_no in range(num_assets)" in _update_health, on the
\* pass's local variables.
SampleAsset(acc, o) ==
    IF o.feedRaise THEN acc
    ELSE LET withFeed ==
                 IF o.feed # None
                 THEN [acc EXCEPT !.connected = TRUE,
                                  !.feed_latency_ns = Some(o.feed[1][2] - o.feed[1][1]),
                                  !.last_feed_time = Some(o.feed[1][2])]
                 ELSE acc
         IN IF o.orderRaise \/ o.order = None
            THEN withFeed
            ELSE [withFeed EXCEPT
                    !.order_latency_ns = Some(o.order[1][3] - o.order[1][1]),
                    !.last_order_time = Some(o.order[1][3])]

\* (mutant) an exception while sampling an asset ends the pass: the assets
\* after it are not sampled.
RECURSIVE SamplePassStopsAtRaise(_, _, _)
SamplePassStopsAtRaise(acc, s, a) ==
    IF a >= cfg.num_assets THEN acc
    ELSE IF s[a].feedRaise \/ s[a].orderRaise THEN SampleAsset(acc, s[a])
    ELSE SamplePassStopsAtRaise(SampleAsset(acc, s[a]), s, a + 1)

\* for asset_no in range(num_assets): each asset in its own try block.
RECURSIVE SamplePass(_, _, _)
SamplePass(acc, s, a) ==
    IF a >= cfg.num_assets THEN acc
    ELSE SamplePass(SampleAsset(acc, s[a]), s, a + 1)

\* The sampling passes begun and not yet published, and those published.
PassesBegun == Cardinality(published) + Cardinality({g \in Gens : hpc[g] = "publish"})

\* while not self._stop_event.is_set(): self._update_health() up to the lock.
\* num_assets may raise: the pass is over, and the worker waits and loops.
HealthSample(g) ==
    /\ hpc[g] = "loop"
    /\ IF stopEvent
       THEN /\ hpc' = [hpc EXCEPT ![g] = "done"]
            /\ UNCHANGED <<hnew, hsamp>>
       ELSE \/ /\ TRUE \in cfg.sampleRaises
               /\ UNCHANGED <<hpc, hnew, hsamp>>
            \/ /\ PassesBegun < cfg.maxPasses
               /\ \E s \in [Assets -> UNION {SampleOutcomes(a) : a \in Assets}] :
                     /\ \A a \in Assets : s[a] \in SampleOutcomes(a)
                     /\ hnew' = [hnew EXCEPT ![g] = SamplePass(InitialHealth, s, 0)]
                     /\ hsamp' = [hsamp EXCEPT ![g] = s]
               /\ hpc' = [hpc EXCEPT ![g] = "publish"]
    /\ UNCHANGED <<cfg, runnerVars, stubVars, histVars, clientVars, feedVars, health, healthLock, published,
                   lostEdges, lostCalls, chanVars, botVars, orderVars, call>>

\* (mutant) the snapshot is written into the shared object field by field and
\* a reader can meet it with the connected field not yet written.
StoreHealthInPlace(old, new) == [new EXCEPT !.connected = old.connected]

\* self._health = ConnectionHealth(...): the object the attribute refers to
\* after the assignment.
StoreHealth(old, new) == new

\* Whether the behaviour's disconnect callback is one that raises.
CallbackRaises == "lostRaises" \in DOMAIN cfg /\ cfg.lostRaises

\* (mutant) the snapshot is assigned after the callback has returned: a
\* callback that raises leaves the old snapshot in place.
PublicationSkippedByRaise(old, new) == old

\* self._health = ConnectionHealth(...) precedes the callback: what
\* self._health refers to when the callback raised.
HealthWhenCallbackRaises(old, new) == new

\* (mutant) the callback is invoked on every disconnected pass.
LostWheneverDisconnected(oldConnected, connected) == ~connected

\* if old_connected and not connected
ConnectionLost(oldConnected, connected) == oldConnected /\ ~connected

\* with self._lock: swap the snapshot in, detect the edge, call the callback
\* (still holding the lock).
HealthPublish(g) ==
    /\ hpc[g] = "publish"
    /\ healthLock = NoThread
    /\ LET new == [hnew[g] EXCEPT !.pass = Cardinality(published) + 1]
           lost == ConnectionLost(health.connected, new.connected)
       IN /\ health' = IF lost /\ cfg.on_connection_lost /\ CallbackRaises
                        THEN HealthWhenCallbackRaises(health, StoreHealth(health, new))
                        ELSE StoreHealth(health, new)
          /\ published' = published \cup {new}
          /\ lostEdges' = lostEdges + (IF health.connected /\ ~health'.connected THEN 1 ELSE 0)
          /\ hnew' = [hnew EXCEPT ![g] = InitialHealth]
          /\ hsamp' = [hsamp EXCEPT ![g] = <<>>]
          /\ IF lost /\ cfg.on_connection_lost
             THEN /\ lostCalls' = lostCalls + 1
                  /\ healthLock' = g
                  /\ hpc' = [hpc EXCEPT ![g] = "callback"]
             ELSE /\ UNCHANGED <<lostCalls, healthLock>>
                  /\ hpc' = [hpc EXCEPT ![g] = "loop"]
    /\ UNCHANGED <<cfg, runnerVars, stubVars, histVars, clientVars, feedVars, chanVars, botVars, orderVars, call>>

\* on_connection_lost returns or raises: either way the with block releases
\* the lock, and the worker waits for the interval and loops.
HealthCallbackReturn(g) ==
    /\ hpc[g] = "callback"
    /\ healthLock' = NoThread
    /\ hpc' = [hpc EXCEPT ![g] = "loop"]
    /\ UNCHANGED <<cfg, runnerVars, stubVars, histVars, clientVars, feedVars, hnew, hsamp, health, published,
                   lostEdges, lostCalls, chanVars, botVars, orderVars, call>>

\* ------------------------------------------------- client facade and lifecycle
\* A caller thread outside any call.  exc is the exception the finished call
\* raised to the caller; the other fields are the call's locals and history.
IdleCall ==
    [op |-> "none", pc |-> "idle", exc |-> "none", bodyExc |-> FALSE,
     wasRunning |-> FALSE, feedTimedOut |-> FALSE, healthTimedOut |-> FALSE,
     trace |-> <<>>, order_id |-> 0, status |-> "none", error |-> None,
     seenPass |-> 0, snapshot |-> InitialHealth, result |-> None,
     side |-> "BUY", botArg |-> None, botResult |-> 0, botText |-> <<>>,
     channel |-> "none", waitedOnEmpty |-> FALSE]

Spawned == Cardinality({g \in Gens : fpc[g] # "unborn"})
StartsPending == Cardinality({c \in Callers : call[c].pc = "start_body"})

\* (mutant) the double-start guard is missing.
StartNeverRejects == FALSE

\* if self._running: raise LiveClientError("Client already running")
StartRejects == running

\* start(), or __enter__ of the scoped use: the double-start guard.
StartCheck(c, o) ==
    /\ c \in cfg.callers
    /\ call[c].pc = "idle"
    /\ IF StartRejects
       THEN call' = [call EXCEPT ![c] =
                       [IdleCall EXCEPT !.op = o, !.pc = "ret", !.exc = "LiveClientError"]]
       ELSE /\ Spawned + StartsPending < cfg.maxStarts
            /\ call' = [call EXCEPT ![c] = [IdleCall EXCEPT !.op = o, !.pc = "start_body"]]
    /\ UNCHANGED <<cfg, runnerVars, stubVars, histVars, clientVars, feedVars, healthVars, chanVars, botVars, orderVars>>

\* The rest of start(): clear the stop signal, set _running, spawn both workers.
StartBody(c) ==
    /\ call[c].pc = "start_body"
    /\ LET g == Spawned + 1
       IN /\ stopEvent' = FALSE
          /\ running' = TRUE
          /\ feedThread' = g
          /\ healthThread' = g
          /\ fpc' = [fpc EXCEPT ![g] = "loop"]
          /\ hpc' = [hpc EXCEPT ![g] = "loop"]
    /\ call' = [call EXCEPT ![c].pc = IF call[c].op = "with" THEN "body" ELSE "ret"]
    /\ UNCHANGED <<cfg, runnerVars, stubVars, histVars, fasset, fbuf, fidx, hnew, hsamp, health, healthLock,
                   published, lostEdges, lostCalls, chanVars, botVars, orderVars>>

\* The body of "with LiveClient(bot) as client:" ends, normally or by raising.
ScopeBody(c, raises) ==
    /\ call[c].pc = "body"
    /\ call' = [call EXCEPT ![c].pc = "exit", ![c].bodyExc = raises]
    /\ UNCHANGED <<cfg, runnerVars, stubVars, histVars, clientVars, feedVars, healthVars, chanVars, botVars, orderVars>>

\* Where a call goes on when its stop() part has returned: stop() returns to
\* the caller; close() (and __exit__, which calls it) goes on to the Bot.
AfterStop(o) == IF o = "stop" THEN "ret" ELSE "bot_close"

\* (mutant) stop() leaves _running set.
RunningKeptByStop == TRUE

\* self._running = False in stop()
RunningAfterStop == FALSE

\* stop(), also as the first statement of close(): return if not running,
\* else raise the stop signal and clear _running.
StopEnter(c, o) ==
    /\ c \in cfg.callers
    /\ \/ call[c].pc = "idle" /\ o \in {"stop", "close"}
       \/ call[c].pc = "exit" /\ o = "with"
    /\ LET me == IF call[c].pc = "idle" THEN [IdleCall EXCEPT !.op = o] ELSE call[c]
       IN IF ~running
          THEN /\ call' = [call EXCEPT ![c] =
                             [me EXCEPT !.pc = AfterStop(o), !.trace = Append(@, "stop")]]
               /\ UNCHANGED <<running, stopEvent>>
          ELSE /\ stopEvent' = TRUE
               /\ running' = RunningAfterStop
               /\ call' = [call EXCEPT ![c] =
                             [me EXCEPT !.pc = "join_feed", !.wasRunning = TRUE]]
    /\ UNCHANGED <<cfg, runnerVars, stubVars, histVars, feedThread, healthThread, feedVars, healthVars, chanVars,
                   botVars, orderVars>>

\* (mutant) stop() does not wait for the worker.
JoinReturnsAtOnce(alive, blocked) == TRUE

\* thread.join(timeout) returns: the thread has ended, or the bound ran out,
\* which takes a thread that is blocked for longer than the bound.
JoinReturns(alive, blocked) == ~alive \/ blocked

\* if self._feed_thread and self._feed_thread.is_alive(): join(timeout=5.0)
StopJoinFeed(c) ==
    /\ call[c].pc = "join_feed"
    /\ LET alive == feedThread # NoThread /\ FeedAlive(feedThread)
           blocked == feedThread # NoThread /\ FeedBlocked(feedThread)
       IN /\ JoinReturns(alive, blocked)
          /\ call' = [call EXCEPT ![c].pc = "join_health", ![c].feedTimedOut = alive]
    /\ UNCHANGED <<cfg, runnerVars, stubVars, histVars, clientVars, feedVars, healthVars, chanVars, botVars, orderVars>>

\* if self._health_thread and self._health_thread.is_alive(): join(timeout=2.0)
StopJoinHealth(c) ==
    /\ call[c].pc = "join_health"
    /\ LET alive == healthThread # NoThread /\ HealthAlive(healthThread)
           blocked == healthThread # NoThread /\ HealthBlocked(healthThread)
       IN /\ JoinReturns(alive, blocked)
          /\ call' = [call EXCEPT ![c].pc = AfterStop(call[c].op),
                                  ![c].healthTimedOut = alive,
                                  ![c].trace = Append(@, "stop")]
    /\ UNCHANGED <<cfg, runnerVars, stubVars, histVars, clientVars, feedVars, healthVars, chanVars, botVars, orderVars>>

\* (mutant) close() lets an exception of the Bot's close() through.
CloseRaisesBotError(outcome) == outcome = "raise"

\* (mutant) __exit__ returns True.
ExitSuppressesBody == TRUE

\* What close() raises to its caller when the Bot's close() returned a status
\* ("ok", "status": non-zero) or raised ("raise"): both are only logged.
CloseRaises(outcome) == FALSE

\* __exit__ returns False: an exception of the body is not suppressed.
ExitSuppresses == FALSE

\* The second part of close(): self._bot.close() inside try / except.
BotClose(c, outcome) ==
    /\ call[c].pc = "bot_close"
    /\ botClosed' = TRUE
    /\ call' = [call EXCEPT
                  ![c].pc = "ret",
                  ![c].trace = Append(@, "bot_close"),
                  ![c].exc = IF CloseRaises(outcome) THEN "BotError"
                             ELSE IF call[c].op = "with" /\ call[c].bodyExc /\ ~ExitSuppresses
                                  THEN "BodyError"
                                  ELSE "none"]
    /\ UNCHANGED <<cfg, runnerVars, stubVars, histVars, clientVars, feedVars, healthVars, chanVars, raw, botEvents,
                   botOrders, botPosition, orderVars>>

\* The call has returned (or raised); the caller thread is free again.
Return(c) ==
    /\ call[c].pc = "ret"
    /\ call' = [call EXCEPT ![c] = IdleCall]
    /\ UNCHANGED <<cfg, runnerVars, stubVars, histVars, clientVars, feedVars, healthVars, chanVars, botVars, orderVars>>

\* The history of channel ch after a read of it returned result.
Returned(ch, result) ==
    IF History /\ result # None
    THEN [consumed EXCEPT ![ch] = Append(@, result[1])]
    ELSE consumed

\* The reads whose values the history holds; a specification that keeps the
\* history bounds the reads it follows.
ReadsFollowed == Len(consumed["trade"]) + Len(consumed["book"]) + Len(consumed["snapshot"])
MayRead == IF History THEN ReadsFollowed < cfg.maxGets ELSE TRUE

\* self._trade_queue / self._book_queue / self._snapshot_queue by name.
Channel(ch) ==
    CASE ch = "trade" -> tradeQ
      [] ch = "book" -> bookQ
      [] OTHER -> snapQ

\* (mutant) the read returns the oldest event and leaves it in the channel.
PeekLeft(q) == q

\* Queue._get: the deque after popleft().
PopLeft(q) == Tail(q)

\* The three channels after a read of channel ch took its oldest event.
Taken(ch) ==
    /\ tradeQ' = IF ch = "trade" /\ tradeQ # <<>> THEN PopLeft(tradeQ) ELSE tradeQ
    /\ bookQ' = IF ch = "book" /\ bookQ # <<>> THEN PopLeft(bookQ) ELSE bookQ
    /\ snapQ' = IF ch = "snapshot" /\ snapQ # <<>> THEN PopLeft(snapQ) ELSE snapQ

\* get_trade_nowait / get_book_update_nowait / get_snapshot_nowait: pop the
\* head of the channel, or None when it is empty (queue.Empty is caught).
GetNowait(c, ch) ==
    /\ c \in cfg.callers
    /\ call[c].pc = "idle"
    /\ MayRead
    /\ LET q == Channel(ch)
       IN call' = [call EXCEPT ![c] =
                     [IdleCall EXCEPT !.op = ch, !.pc = "ret",
                                      !.result = IF q = <<>> THEN None ELSE Some(Head(q))]]
    /\ Taken(ch)
    /\ consumed' = Returned(ch, call'[c].result)
    /\ UNCHANGED <<cfg, runnerVars, stubVars, histVars, clientVars, feedVars, healthVars, dropped, botVars, orderVars>>

\* The name, as a call, of the blocking read of channel ch.
BlockingGet(ch) ==
    CASE ch = "trade" -> "get_trade"
      [] ch = "book" -> "get_book_update"
      [] OTHER -> "get_snapshot"

\* get_trade / get_book_update / get_snapshot: Queue.get(True, timeout or
\* 0.1) runs on an executor thread and waits without holding the queue's
\* mutex.  waitedOnEmpty is history: the channel was empty when the read began.
GetBegin(c, ch) ==
    /\ c \in cfg.callers
    /\ call[c].pc = "idle"
    /\ MayRead
    /\ call' = [call EXCEPT ![c] =
                  [IdleCall EXCEPT !.op = BlockingGet(ch), !.pc = "get_wait",
                                   !.channel = ch,
                                   !.waitedOnEmpty = (Channel(ch) = <<>>)]]
    /\ UNCHANGED <<cfg, runnerVars, stubVars, histVars, clientVars, feedVars, healthVars, chanVars, botVars, orderVars>>

\* Queue.get finds an item: it is removed and returned.
GetTake(c) ==
    /\ call[c].pc = "get_wait"
    /\ Channel(call[c].channel) # <<>>
    /\ call' = [call EXCEPT ![c].pc = "ret",
                            ![c].result = Some(Head(Channel(call[c].channel)))]
    /\ Taken(call[c].channel)
    /\ consumed' = Returned(call[c].channel, call'[c].result)
    /\ UNCHANGED <<cfg, runnerVars, stubVars, histVars, clientVars, feedVars, healthVars, dropped, botVars, orderVars>>

\* The timeout expires with the channel still empty: queue.Empty is caught
\* and None is returned.
GetTimeout(c) ==
    /\ call[c].pc = "get_wait"
    /\ Channel(call[c].channel) = <<>>
    /\ call' = [call EXCEPT ![c].pc = "ret", ![c].result = None]
    /\ UNCHANGED <<cfg, runnerVars, stubVars, histVars, clientVars, feedVars, healthVars, chanVars, botVars, orderVars>>

\* The health property is called: the caller goes for self._lock.  seenPass
\* is history: the pass whose snapshot was in the slot when the read began.
HealthReadBegin(c) ==
    /\ c \in cfg.callers
    /\ call[c].pc = "idle"
    /\ call' = [call EXCEPT ![c] =
                  [IdleCall EXCEPT !.op = "health", !.pc = "health_lock",
                                   !.seenPass = health.pass]]
    /\ UNCHANGED <<cfg, runnerVars, stubVars, histVars, clientVars, feedVars, healthVars, chanVars, botVars, orderVars>>

\* with self._lock: return self._health
HealthRead(c) ==
    /\ call[c].pc = "health_lock"
    /\ healthLock = NoThread
    /\ call' = [call EXCEPT ![c].pc = "ret", ![c].snapshot = health]
    /\ UNCHANGED <<cfg, runnerVars, stubVars, histVars, clientVars, feedVars, healthVars, chanVars, botVars, orderVars>>

\* The ConnectionHealth object a snapshot refers to: every pass builds one
\* new object, which the pass number names, and the constructor built object 0.
SameObject(h1, h2) == h1.pass = h2.pass

\* The caller assigns to the connected field of the ConnectionHealth it got
\* from the health property.  The dataclass is not frozen and the property
\* returned the object self._health refers to, not a copy: the assignment
\* shows wherever that object is referred to, the shared attribute included.
MutateSnapshot(c, v) ==
    /\ call[c].op = "health"
    /\ call[c].pc = "ret"
    /\ v # call[c].snapshot.connected
    /\ call' = [x \in Callers |->
                  IF /\ call[x].op = "health" /\ call[x].pc = "ret"
                     /\ SameObject(call[x].snapshot, call[c].snapshot)
                  THEN [call[x] EXCEPT !.snapshot.connected = v]
                  ELSE call[x]]
    /\ health' = IF SameObject(health, call[c].snapshot)
                 THEN [health EXCEPT !.connected = v]
                 ELSE health
    /\ UNCHANGED <<cfg, runnerVars, stubVars, histVars, clientVars, feedVars, hpc, hnew, hsamp, healthLock, published,
                   lostEdges, lostCalls, chanVars, botVars, orderVars>>

\* ---------------------------------------------------------------- order gateway
\* A description is a tuple of its parts: str(e) of an exception without
\* a message is the empty tuple.
\* (mutant) _decode_error without the rendering of a code it does not hold.
DecodeKnownOnly(code) ==
    CASE code = 1 -> <<"End of data">>
      [] code = 10 -> <<"Order ID already exists">>
      [] code = 12 -> <<"Order not found">>
      [] OTHER -> <<"Custom error">>

\* _decode_error: the fixed table, and the rendering of a code it does not hold.
DecodeError(code) ==
    CASE code = 1 -> <<"End of data">>
      [] code = 10 -> <<"Order ID already exists">>
      [] code = 12 -> <<"Order not found">>
      [] code = 14 -> <<"Invalid order status">>
      [] code = 16 -> <<"Instrument not found">>
      [] code = 17 -> <<"Timeout">>
      [] code = 18 -> <<"Interrupted">>
      [] code = 19 -> <<"Custom error">>
      [] OTHER -> <<"Unknown error code: ", code>>

\* Whether the Bot is the synthetic Bot of stub.py, or any Bot of the interface.
Stub == "bot" \in DOMAIN cfg /\ cfg.bot = "stub"

\* The order ids the synthetic Bot holds: self._orders.keys()
StubOrderIds(orders) == {o.order_id : o \in orders}

\* Calls that have entered _generate_order_id and not yet left it.
Allocating == Cardinality({c \in Callers : call[c].pc \in {"gen_acquire", "gen_read", "gen_incr"}})

\* submit_order(..., order_id=oid, ...): if order_id is None the id is
\* generated, else the caller's id is used as it is.
SubmitBegin(c, oid) ==
    /\ c \in cfg.callers
    /\ call[c].pc = "idle"
    /\ \E sd \in (IF "sides" \in DOMAIN cfg THEN cfg.sides ELSE {"BUY"}) :
          IF oid = None
          THEN /\ Len(allocated) + Allocating < cfg.maxAlloc
               /\ call' = [call EXCEPT ![c] =
                             [IdleCall EXCEPT !.op = "submit_order", !.pc = "gen_acquire",
                                              !.side = sd]]
          ELSE call' = [call EXCEPT ![c] =
                          [IdleCall EXCEPT !.op = "submit_order", !.pc = "bot_submit",
                                           !.order_id = oid[1], !.side = sd]]
    /\ UNCHANGED <<cfg, runnerVars, stubVars, histVars, clientVars, feedVars, healthVars, chanVars, botVars, orderVars>>

\* (mutant) _generate_order_id does not take the lock.
OrderIdLockIgnored == TRUE

\* with self._order_id_lock: the lock can be taken when no thread holds it.
OrderIdLockFree == orderIdLock = "free"

GenAcquire(c) ==
    /\ call[c].pc = "gen_acquire"
    /\ OrderIdLockFree
    /\ orderIdLock' = c
    /\ call' = [call EXCEPT ![c].pc = "gen_read"]
    /\ UNCHANGED <<cfg, runnerVars, stubVars, histVars, clientVars, feedVars, healthVars, chanVars, botVars,
                   nextOrderId, allocated, usedIds>>

\* order_id = self._next_order_id
GenRead(c) ==
    /\ call[c].pc = "gen_read"
    /\ call' = [call EXCEPT ![c].pc = "gen_incr", ![c].order_id = nextOrderId]
    /\ UNCHANGED <<cfg, runnerVars, stubVars, histVars, clientVars, feedVars, healthVars, chanVars, botVars, orderVars>>

\* self._next_order_id += 1; return order_id (the with block releases the lock)
GenIncr(c) ==
    /\ call[c].pc = "gen_incr"
    /\ nextOrderId' = nextOrderId + 1
    /\ allocated' = Append(allocated, call[c].order_id)
    /\ orderIdLock' = IF orderIdLock = c THEN "free" ELSE orderIdLock
    /\ call' = [call EXCEPT ![c].pc = "bot_submit"]
    /\ UNCHANGED <<cfg, runnerVars, stubVars, histVars, clientVars, feedVars, healthVars, chanVars, botVars, usedIds>>

\* (mutant) the synthetic Bot accepts an order id it already holds.
StubAlwaysAccepts(orders, oid) == 0

\* StubConnectorBot.submit_buy_order / submit_sell_order: the return code.
StubSubmitResult(orders, oid) == IF oid \in StubOrderIds(orders) THEN 10 ELSE 0

\* (mutant) the synthetic Bot's cancel does not look the order up.
StubCancelsAnything(orders, oid) == 0

\* StubConnectorBot.cancel: the return code.
StubCancelResult(orders, oid) == IF oid \in StubOrderIds(orders) THEN 0 ELSE 12

\* The error field of the response to Bot result `result` (-1: the Bot call
\* raised an exception whose str() is text).
ResponseError(result, text) ==
    CASE result = 0 -> None
      [] result = -1 -> Some(text)
      [] OTHER -> Some(DecodeError(result))

\* The Bot's submit_buy_order / submit_sell_order returns (or raises) and
\* submit_order builds the OrderResponse.  The synthetic Bot keeps the order
\* (every order of the model has price 1 and quantity 1) and, if it chooses
\* to fill it, moves its position by the quantity.
BotSubmit(c, result, text, fill) ==
    /\ call[c].pc = "bot_submit"
    /\ LET oid == call[c].order_id
           r == IF Stub THEN StubSubmitResult(botOrders, oid) ELSE result
           delta == IF call[c].side = "BUY" THEN 1 ELSE -1
       IN /\ call' = [call EXCEPT
                        ![c].pc = "ret",
                        ![c].botArg = Some(oid),
                        ![c].botResult = r,
                        ![c].botText = IF r = -1 THEN text ELSE <<>>,
                        ![c].status = IF r = 0 THEN "submitted" ELSE "error",
                        ![c].error = ResponseError(r, text)]
          /\ usedIds' = usedIds \cup {oid}
          /\ IF Stub /\ r = 0
             THEN /\ botOrders' = botOrders \cup
                        {[order_id |-> oid, side |-> call[c].side,
                          price |-> 1, qty |-> 1,
                          leaves_qty |-> IF fill THEN 0 ELSE 1,
                          status |-> IF fill THEN "filled" ELSE "accepted"]}
                  /\ botPosition' = IF fill THEN botPosition + delta ELSE botPosition
                  /\ fill => (botPosition + delta) \in (0 - cfg.maxPosition)..cfg.maxPosition
             ELSE UNCHANGED <<botOrders, botPosition>>
    /\ UNCHANGED <<cfg, runnerVars, stubVars, histVars, clientVars, feedVars, healthVars, chanVars, raw, botEvents,
                   botClosed, nextOrderId, orderIdLock, allocated>>

\* cancel_order: the Bot's cancel returns (or raises) and the OrderResponse
\* is built.  The synthetic Bot deletes an order it holds.
CancelOrder(c, oid, result, text) ==
    /\ c \in cfg.callers
    /\ call[c].pc = "idle"
    /\ LET r == IF Stub THEN StubCancelResult(botOrders, oid) ELSE result
       IN /\ call' = [call EXCEPT ![c] =
                        [IdleCall EXCEPT
                           !.op = "cancel_order", !.pc = "ret",
                           !.order_id = oid, !.botArg = Some(oid),
                           !.botResult = r,
                           !.botText = IF r = -1 THEN text ELSE <<>>,
                           !.status = IF r = 0 THEN "cancelled" ELSE "error",
                           !.error = ResponseError(r, text)]]
          /\ botOrders' = IF Stub /\ r = 0
                          THEN {o \in botOrders : o.order_id # oid}
                          ELSE botOrders
    /\ UNCHANGED <<cfg, runnerVars, stubVars, histVars, clientVars, feedVars, healthVars, chanVars, raw, botEvents,
                   botClosed, botPosition, orderVars>>

\* (mutant) the except branch returns what was drained before the exception.
DrainedBeforeRaise(orders, raiseAt) ==
    IF raiseAt = None
    THEN [id \in StubOrderIds(orders) |->
            LET o == CHOOSE x \in orders : x.order_id = id
            IN [order_id |-> o.order_id,
                side |-> IF o.side = "BUY" THEN "buy" ELSE "sell",
                price |-> o.price, qty |-> o.qty,
                leaves_qty |-> o.leaves_qty, status |-> o.status]]
    ELSE LET some == CHOOSE S \in SUBSET StubOrderIds(orders) :
                        \/ Cardinality(S) = raiseAt[1]
                        \/ S = StubOrderIds(orders) /\ Cardinality(S) < raiseAt[1]
         IN [id \in some |->
               LET o == CHOOSE x \in orders : x.order_id = id
               IN [order_id |-> o.order_id,
                   side |-> IF o.side = "BUY" THEN "buy" ELSE "sell",
                   price |-> o.price, qty |-> o.qty,
                   leaves_qty |-> o.leaves_qty, status |-> o.status]]

\* get_orders: the mapping drained from the Bot's order iterator, keyed by
\* order.order_id; "return {}" when the accessor or the iterator raised
\* (raiseAt: the number of orders the iterator gave before it raised).
OrdersMapping(orders, raiseAt) ==
    IF raiseAt # None THEN <<>>
    ELSE [id \in StubOrderIds(orders) |->
            LET o == CHOOSE x \in orders : x.order_id = id
            IN [order_id |-> o.order_id,
                side |-> IF o.side = "BUY" THEN "buy" ELSE "sell",
                price |-> o.price, qty |-> o.qty,
                leaves_qty |-> o.leaves_qty, status |-> o.status]]

\* get_orders(asset_no) over a Bot that holds its orders as the synthetic
\* one does and whose orders() or iterator may raise.
GetOrders(c, raiseAt) ==
    /\ c \in cfg.callers
    /\ Stub
    /\ call[c].pc = "idle"
    /\ call' = [call EXCEPT ![c] =
                  [IdleCall EXCEPT !.op = "get_orders", !.pc = "ret",
                                   !.botText = raiseAt,
                                   !.result = OrdersMapping(botOrders, raiseAt)]]
    /\ UNCHANGED <<cfg, runnerVars, stubVars, histVars, clientVars, feedVars, healthVars, chanVars, botVars, orderVars>>

\* -------------------------------------------------- synthetic Bot: the feed
StubNames == {"bot1", "bot2"}

\* No instance has been constructed under the name.
NoStub == [built |-> FALSE, feed_count |-> 0, last_trades |-> 0, closed |-> FALSE]

\* StubConnectorBot.__init__: _feed_count = 0, _last_trades = [] (the model
\* keeps the length of the list), _closed = False.
NewStub == [built |-> TRUE, feed_count |-> 0, last_trades |-> 0, closed |-> FALSE]

\* "if self._feed_count > 1000: return 1"
StubMaxFeeds == 1000

\* random.random() in tenths: a draw below both thresholds of wait_next_feed,
\* one between them, one at or above both.
Draws == {6, 7, 8}

\* "if random.random() < 0.7" and "if random.random() < 0.8", in tenths.
TradeChance == 7
DepthChance == 8

\* The calls of the generator in _generate_synthetic_trade (gauss, random,
\* uniform) and in _update_synthetic_depth (gauss, uniform three times).
TradeDraws == 3
DepthDraws == 4

\* StubConnectorBot.wait_next_feed on instance state s, where the two draws
\* decided trade and depth: the state after it and the code it returns.
StubWaitNextFeed(s, trade, depth) ==
    IF s.closed THEN [bot |-> s, result |-> 1]
    ELSE IF s.feed_count + 1 > StubMaxFeeds
         THEN [bot |-> [s EXCEPT !.feed_count = @ + 1], result |-> 1]
         ELSE LET n == s.last_trades + (IF trade THEN 1 ELSE 0) + (IF depth THEN 1 ELSE 0)
              IN [bot |-> [s EXCEPT !.feed_count = @ + 1, !.last_trades = n],
                  result |-> IF n > 0 \/ (s.feed_count + 1) % 5 = 0 THEN 2 ELSE 0]

\* wait_next_feed on s reaches its random draws.
StubDraws(s) == ~s.closed /\ s.feed_count + 1 <= StubMaxFeeds

\* The generator's stream after seeding is a fixed sequence; the model
\* reveals the value at a position when a draw that decides something first
\* reads it.  u can be the value at position p.
Agrees(p, u) == \A x \in rng.seen : x[1] = p => x[2] = u

\* random.seed(seed) if a seed is given: the shared generator restarts the
\* stream of the seed (the model has one seed, so one stream).
Seeded(seed) ==
    IF seed = None THEN rng ELSE [rng EXCEPT !.seeded = TRUE, !.pos = 0]

\* bot.wait_next_feed(...) on instance b: the draws are free while the
\* generator is unseeded, and read from the stream once it is seeded.
StubPoll(b, u1, u2) ==
    LET s == stubBots[b]
        trade == u1 < TradeChance
        depth == u2 < DepthChance
        p1 == rng.pos + 1
        p2 == p1 + (IF trade THEN TradeDraws ELSE 0) + 1
        pEnd == p2 + (IF depth THEN DepthDraws ELSE 0) + 1
    IN /\ s.built
       /\ (rng.seeded /\ StubDraws(s)) => (Agrees(p1, u1) /\ Agrees(p2, u2))
       /\ rng' = IF rng.seeded /\ StubDraws(s)
                 THEN [rng EXCEPT !.pos = pEnd, !.seen = @ \cup {<<p1, u1>>, <<p2, u2>>}]
                 ELSE rng
       /\ stubBots' = [stubBots EXCEPT ![b] = StubWaitNextFeed(s, trade, depth).bot]

\* The code that poll returns.
PollResult(b, u1, u2) ==
    StubWaitNextFeed(stubBots[b], u1 < TradeChance, u2 < DepthChance).result

\* The test function before it starts.
NoTest ==
    [pc |-> "build", n |-> 0, result |-> 0, run |-> 1,
     counts |-> [b \in StubNames |-> 0],
     previous |-> [b \in StubNames |-> 0]]

\* test_stub_max_feeds: bot = StubConnectorBot()
MaxFeedsBuild ==
    /\ cfg.test = "max_feeds"
    /\ test.pc = "build"
    /\ stubBots' = [stubBots EXCEPT !["bot1"] = NewStub]
    /\ rng' = Seeded(None)
    /\ test' = [test EXCEPT !.pc = "loop"]
    /\ UNCHANGED <<cfg, runnerVars, histVars, clientVars, feedVars, healthVars, chanVars, botVars, orderVars, call>>

\* while feed_count < 2000: poll, feed_count += 1, break on EndOfData.
MaxFeedsPoll ==
    /\ cfg.test = "max_feeds"
    /\ test.pc = "loop"
    /\ IF test.n < 2000
       THEN \E u1 \in Draws, u2 \in Draws :
               /\ StubPoll("bot1", u1, u2)
               /\ test' = [test EXCEPT
                             !.n = @ + 1,
                             !.result = PollResult("bot1", u1, u2),
                             !.pc = IF PollResult("bot1", u1, u2) = 1 THEN "done" ELSE "loop"]
       ELSE /\ test' = [test EXCEPT !.pc = "done"]
            /\ UNCHANGED <<stubBots, rng>>
    /\ UNCHANGED <<cfg, runnerVars, histVars, clientVars, feedVars, healthVars, chanVars, botVars, orderVars, call>>

\* test_stub_respects_seed: bot1 = StubConnectorBot(seed=123), then bot2 the
\* same.
SeedBuild(b) ==
    /\ cfg.test = "seed"
    /\ test.pc = (IF b = "bot1" THEN "build" ELSE "build2")
    /\ stubBots' = [stubBots EXCEPT ![b] = NewStub]
    /\ rng' = Seeded(cfg.seed)
    /\ test' = [test EXCEPT !.pc = IF b = "bot1" THEN "build2" ELSE "wait1"]
    /\ UNCHANGED <<cfg, runnerVars, histVars, clientVars, feedVars, healthVars, chanVars, botVars, orderVars, call>>

\* The loop body polls bot1, then bot2.
SeedPoll(b) ==
    /\ cfg.test = "seed"
    /\ test.pc = (IF b = "bot1" THEN "wait1" ELSE "wait2")
    /\ \E u1 \in Draws, u2 \in Draws :
          /\ StubPoll(b, u1, u2)
          /\ test' = [test EXCEPT !.result = PollResult(b, u1, u2),
                                  !.pc = IF b = "bot1" THEN "wait2" ELSE "tally"]
    /\ UNCHANGED <<cfg, runnerVars, histVars, clientVars, feedVars, healthVars, chanVars, botVars, orderVars, call>>

\* The rest of the loop body: the counts grow by len(last_trades(0)) of each
\* instance and both buffers are cleared; after the last round the test
\* compares the counts (and closes the instances).
SeedTally ==
    /\ cfg.test = "seed"
    /\ test.pc = "tally"
    /\ test' = [test EXCEPT
                  !.counts = [b \in StubNames |-> @[b] + stubBots[b].last_trades],
                  !.n = @ + 1,
                  !.pc = IF test.n + 1 < cfg.polls THEN "wait1" ELSE "done"]
    /\ stubBots' = [b \in StubNames |-> [stubBots[b] EXCEPT !.last_trades = 0]]
    /\ UNCHANGED <<cfg, runnerVars, histVars, clientVars, feedVars, healthVars, chanVars, botVars, orderVars, call,
                   rng>>

\* The test is run again, with the same seed.
SeedRerun ==
    /\ cfg.test = "seed"
    /\ test.pc = "done"
    /\ test.run < cfg.runs
    /\ test' = [NoTest EXCEPT !.run = test.run + 1, !.previous = test.counts]
    /\ stubBots' = [b \in StubNames |-> NoStub]
    /\ UNCHANGED <<cfg, runnerVars, histVars, clientVars, feedVars, healthVars, chanVars, botVars, orderVars, call,
                   rng>>

\* ------------------------------------------------------------ specifications
\* The lifecycle specification: one caller thread starts, stops, closes and
\* scopes the client over a Bot whose wait may return anything; the channels
\* and the health values are kept small, the workers' control flow is whole.
LifeConfig ==
    [callers |-> {"c1"}, maxStarts |-> MaxStarts, num_assets |-> LifeAssets,
     trade_queue_size |-> MaxCap, book_queue_size |-> MaxCap,
     snapshot_queue_size |-> MaxCap,
     on_connection_lost |-> TRUE, on_error |-> TRUE,
     waitResults |-> {-1, 0, 1, 2, 3, 99},
     maxEvents |-> LifeEvents,
     evCodes |-> {TRADE_EVENT},
     badEvents |-> {FALSE},
     cbRaises |-> {FALSE, TRUE},
     maxPasses |-> LifePasses,
     feedSampled |-> {0},
     orderSampled |-> {},
     sampleRaises |-> {FALSE}]

InitState ==
    /\ running = FALSE
    /\ stopEvent = FALSE
    /\ feedThread = NoThread
    /\ healthThread = NoThread
    /\ fpc = [g \in Gens |-> "unborn"]
    /\ fasset = [g \in Gens |-> 0]
    /\ fbuf = [g \in Gens |-> <<>>]
    /\ fidx = [g \in Gens |-> 1]
    /\ hpc = [g \in Gens |-> "unborn"]
    /\ hnew = [g \in Gens |-> InitialHealth]
    /\ hsamp = [g \in Gens |-> <<>>]
    /\ health = InitialHealth
    /\ healthLock = NoThread
    /\ published = {}
    /\ lostEdges = 0
    /\ lostCalls = 0
    /\ tradeQ = <<>>
    /\ bookQ = <<>>
    /\ snapQ = <<>>
    /\ dropped = {}
    /\ consumed = [ch \in {"trade", "book", "snapshot"} |-> <<>>]
    /\ raw = [a \in Assets |-> <<>>]
    /\ botEvents = 0
    /\ botClosed = FALSE
    /\ botOrders = {}
    /\ botPosition = 0
    /\ usedIds = {}
    /\ nextOrderId = 1
    /\ orderIdLock = "free"
    /\ allocated = <<>>
    /\ call = [c \in Callers |-> IdleCall]
    /\ stubBots = [b \in StubNames |-> NoStub]
    /\ rng = [seeded |-> FALSE, pos |-> 0, seen |-> {}]
    /\ test = NoTest
    /\ errorCalls = 0
    /\ lastResult = [g \in Gens |-> 0]
    /\ pushedOnce = {}
    /\ pushedAgain = {}
    /\ process = None
    /\ procs = <<>>
    /\ signals = <<>>

FeedWorker ==
    \E g \in Gens : FeedLoop(g) \/ FeedWaitReturn(g) \/ FeedEvent(g) \/ FeedClear(g)

HealthWorker ==
    \E g \in Gens : HealthSample(g) \/ HealthPublish(g) \/ HealthCallbackReturn(g)

Lifecycle ==
    \E c \in Callers :
        \/ \E o \in {"start", "with"} : StartCheck(c, o)
        \/ StartBody(c)
        \/ \E raises \in BOOLEAN : ScopeBody(c, raises)
        \/ \E o \in {"stop", "close", "with"} : StopEnter(c, o)
        \/ StopJoinFeed(c)
        \/ StopJoinHealth(c)
        \/ \E outcome \in {"ok", "status", "raise"} : BotClose(c, outcome)
        \/ Return(c)

Init ==
    /\ cfg = LifeConfig
    /\ InitState

Next == FeedWorker \/ HealthWorker \/ Lifecycle

Spec == Init /\ [][Next]_vars

\* ------------------------------------------------------------ lifecycle claims
\* The step in which the stop() part of caller c's call returns after it found
\* the client Running.
StopReturns(c) == call[c].pc = "join_health" /\ call'[c].pc # "join_health"

C4_StartOnRunningRejected ==
    [][\A c \in Callers :
          (call[c].pc = "idle" /\ call'[c].op \in {"start", "with"} /\ running) =>
              /\ call'[c].pc = "ret"
              /\ call'[c].exc = "LiveClientError"
              /\ UNCHANGED <<running, stopEvent, feedThread, healthThread, fpc, hpc>>]_vars

\* C4 witness: a start() has raised LiveClientError on a Running client whose
\* workers are alive.
C4_Witness ==
    \E c \in Callers :
        /\ call[c].op = "start" /\ call[c].pc = "ret"
        /\ call[c].exc = "LiveClientError"
        /\ running /\ FeedAlive(feedThread) /\ HealthAlive(healthThread)

\* Idle: constructed and never started; Running: _running; Stopped: started
\* before and not running.
LifecycleState ==
    IF running THEN "Running"
    ELSE IF feedThread = NoThread THEN "Idle" ELSE "Stopped"

\* C5 as stated: the state only moves Idle -> Running -> Stopped, and a
\* Stopped client never becomes Running again.
C5_NeverRunningAgain ==
    [][LifecycleState' # LifecycleState =>
          <<LifecycleState, LifecycleState'>> \in
              {<<"Idle", "Running">>, <<"Running", "Stopped">>}]_vars

\* C5 as amended: the state only moves Idle -> Running, Running -> Stopped
\* and Stopped -> Running: start() moves a client that is not Running to
\* Running, stop()/close() move a Running client to Stopped.
C5_LifecycleMoves ==
    [][/\ LifecycleState' # LifecycleState =>
             <<LifecycleState, LifecycleState'>> \in
                 {<<"Idle", "Running">>, <<"Running", "Stopped">>,
                  <<"Stopped", "Running">>}
       /\ \A c \in Callers :
             /\ (call[c].pc = "start_body" /\ call'[c].pc # "start_body")
                    => LifecycleState' = "Running"
             /\ (call[c].pc # "join_feed" /\ call'[c].pc = "join_feed")
                    => LifecycleState = "Running" /\ LifecycleState' = "Stopped"]_vars

\* C5 witness: a client that was stopped is Running again, with the workers
\* of its second start().
C5_Witness == running /\ feedThread = 2 /\ fpc[1] # "unborn"

\* C9: inside the scope the client is Running; when the scope has been left,
\* normally or by an exception of the body, the client is not Running, the
\* Bot's close() has been called, and an exception of the body reaches the
\* caller.
C9_ScopedUse ==
    \A c \in Callers :
        /\ (call[c].op = "with" /\ call[c].pc = "body") => running
        /\ (call[c].op = "with" /\ call[c].pc = "ret" /\ call[c].exc # "LiveClientError") =>
              /\ ~running
              /\ botClosed
              /\ call[c].trace = <<"stop", "bot_close">>
              /\ call[c].exc = IF call[c].bodyExc THEN "BodyError" ELSE "none"

\* C9 witness: a scope whose body raised has been left, and the exception
\* reached the caller.
C9_Witness ==
    \E c \in Callers :
        /\ call[c].op = "with" /\ call[c].pc = "ret"
        /\ call[c].bodyExc /\ call[c].exc = "BodyError" /\ call[c].wasRunning

\* C10: close() performs stop() and then calls the Bot's close() exactly
\* once, also on a client that was never started, and raises nothing,
\* whatever the Bot's close() returns or raises.
C10_CloseStopsThenClosesBot ==
    \A c \in Callers :
        /\ (call[c].op = "close" /\ call[c].pc = "ret") =>
              /\ call[c].trace = <<"stop", "bot_close">>
              /\ call[c].exc = "none"
              /\ botClosed
        /\ (call[c].op = "close" /\ call[c].pc = "bot_close") =>
              call[c].trace = <<"stop">>

\* C10 witness: close() has returned on a client that was never started.
C10_Witness ==
    \E c \in Callers :
        /\ call[c].op = "close" /\ call[c].pc = "ret"
        /\ feedThread = NoThread /\ ~call[c].wasRunning /\ botClosed

\* ------------------------------------------------------- feed specifications
\* The feed specification: a client whose three capacities are any of
\* 0..MaxCap is started once; the Bot reports events of every kind on any
\* asset; a consumer takes from the channels whenever it likes, or never.
FeedConfig(tcap, bcap, scap) ==
    [callers |-> {"c1"}, maxStarts |-> OneStart, num_assets |-> NumAssets,
     trade_queue_size |-> tcap, book_queue_size |-> bcap,
     snapshot_queue_size |-> scap,
     on_connection_lost |-> FALSE, on_error |-> FALSE,
     waitResults |-> {0, 1, 2},
     maxEvents |-> MaxEvents,
     evCodes |-> {DEPTH_EVENT, TRADE_EVENT, DEPTH_SNAPSHOT_EVENT},
     badEvents |-> {FALSE},
     cbRaises |-> {FALSE},
     maxPasses |-> 0,
     feedSampled |-> {},
     orderSampled |-> {},
     sampleRaises |-> {FALSE}]

InitFeed ==
    /\ \E tcap \in 0..MaxCap, bcap \in 0..MaxCap, scap \in 0..MaxCap :
          cfg = FeedConfig(tcap, bcap, scap)
    /\ InitState

NextFeed ==
    \/ FeedWorker
    \/ \E c \in Callers :
          \/ StartCheck(c, "start")
          \/ StartBody(c)
          \/ \E ch \in {"trade", "book", "snapshot"} : GetNowait(c, ch)
          \/ Return(c)

SpecFeed == InitFeed /\ [][NextFeed]_vars

\* The same with every capacity 1 and the feed worker thread scheduled: a
\* worker that can take a step of _process_market_feed eventually takes it.
InitFeedFair ==
    /\ cfg = FeedConfig(1, 1, 1)
    /\ InitState

SpecFeedFair ==
    /\ InitFeedFair
    /\ [][NextFeed]_vars
    /\ \A g \in Gens : WF_vars(FeedEvent(g) \/ FeedClear(g))

\* ------------------------------------------------------------ channel claims
\* C2 as stated: in every reachable state each channel holds at most its
\* configured capacity of events, for every configured capacity.
C2_ChannelsWithinCapacity ==
    /\ Len(tradeQ) <= cfg.trade_queue_size
    /\ Len(bookQ) <= cfg.book_queue_size
    /\ Len(snapQ) <= cfg.snapshot_queue_size

\* C2 as amended: in every reachable state each channel whose configured
\* capacity is at least 1 holds at most that many events; a capacity of 0
\* makes the channel unbounded.
C2_PositiveCapacityHolds ==
    /\ cfg.trade_queue_size >= 1 => Len(tradeQ) <= cfg.trade_queue_size
    /\ cfg.book_queue_size >= 1 => Len(bookQ) <= cfg.book_queue_size
    /\ cfg.snapshot_queue_size >= 1 => Len(snapQ) <= cfg.snapshot_queue_size

\* C2 witness: a channel of positive capacity is full and an event that
\* found it full has been dropped.
C2_Witness ==
    /\ cfg.trade_queue_size >= 1
    /\ Len(tradeQ) = cfg.trade_queue_size
    /\ dropped # {}

\* C3: the feed worker never waits on a full channel: a push that finds the
\* channel full leaves the channel as it is and the worker moves to the next
\* event, and every MarketFeedReady pass the worker is in completes (the
\* worker is back at polling the Bot), also with full channels and no consumer.
C3_NeverWaitsOnFullChannel ==
    /\ [][\A g \in Gens :
             (fpc[g] = "proc" /\ fidx[g] <= Len(fbuf[g])
                /\ Classify(fbuf[g][fidx[g]].ev) = "trade"
                /\ Len(tradeQ) >= cfg.trade_queue_size
                /\ fidx'[g] # fidx[g])
             => (tradeQ' = tradeQ /\ fidx'[g] = fidx[g] + 1)]_vars
    /\ \A g \in Gens : (fpc[g] = "proc") ~> (fpc[g] # "proc")

\* C3 witness: both channels that receive pushes are full, an event that
\* found its channel full was dropped, and the worker is back at polling.
C3_Witness ==
    /\ QueueFull(tradeQ, cfg.trade_queue_size)
    /\ QueueFull(bookQ, cfg.book_queue_size)
    /\ dropped # {}
    /\ fpc[1] \in {"loop", "wait"}

\* ------------------------------------------------------ order specification
\* The order specification: two caller threads submit orders without an
\* order_id, and start, stop and close the client, in any interleaving; the
\* workers only poll and observe the stop signal.
OrderConfig ==
    [callers |-> Callers, maxStarts |-> MaxStarts, num_assets |-> LifeAssets,
     trade_queue_size |-> MaxCap, book_queue_size |-> MaxCap,
     snapshot_queue_size |-> MaxCap,
     on_connection_lost |-> FALSE, on_error |-> FALSE,
     waitResults |-> {0},
     maxEvents |-> 0,
     evCodes |-> {TRADE_EVENT},
     badEvents |-> {FALSE},
     cbRaises |-> {FALSE},
     maxPasses |-> 0,
     feedSampled |-> {},
     orderSampled |-> {},
     sampleRaises |-> {FALSE},
     maxAlloc |-> MaxAlloc,
     orderIds |-> {None},
     submitResults |-> {0, 10}]

InitOrders ==
    /\ cfg = OrderConfig
    /\ InitState

NextOrders ==
    \/ \E g \in Gens : FeedLoop(g) \/ FeedWaitReturn(g) \/ HealthSample(g)
    \/ \E c \in Callers :
          \/ StartCheck(c, "start")
          \/ StartBody(c)
          \/ \E o \in {"stop", "close"} : StopEnter(c, o)
          \/ StopJoinFeed(c)
          \/ StopJoinHealth(c)
          \/ BotClose(c, "ok")
          \/ \E oid \in cfg.orderIds : SubmitBegin(c, oid)
          \/ GenAcquire(c)
          \/ GenRead(c)
          \/ GenIncr(c)
          \/ \E result \in cfg.submitResults : BotSubmit(c, result, <<>>, FALSE)
          \/ Return(c)

SpecOrders == InitOrders /\ [][NextOrders]_vars

\* C6: the auto-assigned order ids are 1, 2, 3, ... in allocation order, so
\* each is greater than all earlier ones and none is handed out twice, also
\* with several threads in submit_order at once; the counter is one more than
\* the number of ids handed out, whatever stop(), start() and close() did.
C6_OrderIdsCountUp ==
    /\ allocated = [i \in 1..Len(allocated) |-> i]
    /\ nextOrderId = Len(allocated) + 1
    /\ \A c, d \in Callers :
          (c # d /\ call[c].op = "submit_order" /\ call[d].op = "submit_order"
             /\ call[c].pc \in {"bot_submit", "ret"} /\ call[d].pc \in {"bot_submit", "ret"})
          => call[c].order_id # call[d].order_id

\* C6 witness: two threads were in submit_order at once and hold different
\* ids, at least two ids were handed out, and the client has been started
\* and stopped in between.
C6_Witness ==
    /\ Len(allocated) >= 2
    /\ ~running /\ feedThread # NoThread
    /\ \A c \in Callers : call[c].op = "submit_order" /\ call[c].pc = "ret"

\* ----------------------------------------------------- health specification
\* The health specification: a client with a disconnect callback is started
\* and stopped; each sampling pass finds, per asset, a feed latency sample or
\* none, an order latency sample or none, or an accessor that raises; a
\* caller reads the health property at any time.
HealthConfig ==
    [callers |-> {"c1"}, maxStarts |-> OneStart, num_assets |-> NumAssets,
     trade_queue_size |-> MaxCap, book_queue_size |-> MaxCap,
     snapshot_queue_size |-> MaxCap,
     on_connection_lost |-> TRUE, on_error |-> FALSE,
     waitResults |-> {0},
     maxEvents |-> 0,
     evCodes |-> {TRADE_EVENT},
     badEvents |-> {FALSE},
     cbRaises |-> {FALSE},
     maxPasses |-> MaxPasses,
     feedSampled |-> {0},
     orderSampled |-> {0},
     sampleRaises |-> {FALSE, TRUE}]

InitHealth ==
    /\ cfg = HealthConfig
    /\ InitState

NextHealth ==
    \/ HealthWorker
    \/ \E g \in Gens : FeedLoop(g) \/ FeedWaitReturn(g)
    \/ \E c \in Callers :
          \/ StartCheck(c, "start")
          \/ StartBody(c)
          \/ StopEnter(c, "stop")
          \/ StopJoinFeed(c)
          \/ StopJoinHealth(c)
          \/ HealthReadBegin(c)
          \/ HealthRead(c)
          \/ Return(c)

SpecHealth == InitHealth /\ [][NextHealth]_vars

\* C7: the disconnect callback is invoked exactly once in each pass that
\* changes the published health from connected to disconnected, and in no
\* other step: not on a later pass while health stays disconnected, nor on a
\* pass whose previous snapshot was already disconnected.
C7_CallbackOncePerDisconnect ==
    [][lostCalls' = lostCalls + (IF health.connected /\ ~health'.connected THEN 1 ELSE 0)]_vars

\* C7 witness: the health went from connected to disconnected once, a later
\* pass found it disconnected again, and the callback was invoked once.
C7_Witness ==
    /\ lostEdges = 1 /\ lostCalls = 1
    /\ ~health.connected
    /\ \E p, q \in published :
          /\ q.pass + 2 = health.pass /\ q.connected
          /\ p.pass + 1 = health.pass /\ ~p.connected

\* C8: what a read of health returns is the initial snapshot or the whole
\* snapshot one pass published, and is not older than the snapshot that was
\* in the slot when the read began.
C8_HealthReadIsWholeAndFresh ==
    \A c \in Callers :
        (call[c].op = "health" /\ call[c].pc = "ret") =>
            /\ call[c].snapshot \in published \cup {InitialHealth}
            /\ call[c].snapshot.pass >= call[c].seenPass

\* C8 witness: a read that began while one pass's snapshot was in the slot
\* returned the snapshot of a later pass, which differs from it in both
\* connected and the latencies.
C8_Witness ==
    \E c \in Callers :
        /\ call[c].op = "health" /\ call[c].pc = "ret"
        /\ call[c].seenPass >= 1
        /\ call[c].snapshot.pass > call[c].seenPass
        /\ \E p \in published :
              /\ p.pass = call[c].seenPass
              /\ p.connected # call[c].snapshot.connected
              /\ p.order_latency_ns # call[c].snapshot.order_latency_ns

\* ---------------------------------------------------- gateway specification
\* The gateway specification: a caller submits orders, with an order_id of
\* its own or without, and cancels orders, over any Bot of the interface
\* (each call returns any code or raises, with or without a message) or over
\* the synthetic Bot.
GatewayConfig(b) ==
    [callers |-> {"c1"}, bot |-> b, num_assets |-> LifeAssets, maxAlloc |-> MaxAlloc,
     orderIds |-> {None} \cup {Some(i) : i \in 1..MaxOrderId},
     sides |-> {"BUY", "SELL"},
     submitResults |-> IF b = "stub" THEN {0} ELSE {-1, 0, 1, 10, 12, 16, 17, 99},
     cancelResults |-> IF b = "stub" THEN {0} ELSE {-1, 0, 12, 17, 99},
     excTexts |-> IF b = "stub" THEN {<<>>} ELSE {<<>>, <<"connection reset">>},
     fills |-> IF b = "stub" THEN BOOLEAN ELSE {FALSE},
     maxPosition |-> MaxPosition]

InitGateway ==
    /\ \E b \in {"any", "stub"} : cfg = GatewayConfig(b)
    /\ InitState

NextGateway ==
    \E c \in Callers :
        \/ \E oid \in cfg.orderIds : SubmitBegin(c, oid)
        \/ GenAcquire(c)
        \/ GenRead(c)
        \/ GenIncr(c)
        \/ \E result \in cfg.submitResults, text \in cfg.excTexts, fill \in cfg.fills :
              BotSubmit(c, result, text, fill)
        \/ \E oid \in 1..MaxOrderId, result \in cfg.cancelResults, text \in cfg.excTexts :
              CancelOrder(c, oid, result, text)
        \/ \E raiseAt \in {None} \cup {Some(k) : k \in 0..MaxOrderId} : GetOrders(c, raiseAt)
        \/ Return(c)

SpecGateway == InitGateway /\ [][NextGateway]_vars

\* C11: submit_order raises nothing and its response is: submitted without a
\* description iff the Bot returned 0; for another code, error with the
\* table's description of the code, or "Unknown error code: N"; when the Bot
\* call raised, error with the exception's text; and the response's order_id
\* is the id the Bot was given.
C11_SubmitResponse ==
    \A c \in Callers :
        (call[c].op = "submit_order" /\ call[c].pc = "ret") =>
            LET r == call[c].botResult
            IN /\ call[c].exc = "none"
               /\ (call[c].status = "submitted" /\ call[c].error = None) <=> r = 0
               /\ r # 0 => call[c].status = "error"
               /\ r = 1 => call[c].error = Some(<<"End of data">>)
               /\ r = 10 => call[c].error = Some(<<"Order ID already exists">>)
               /\ r = 12 => call[c].error = Some(<<"Order not found">>)
               /\ r = 16 => call[c].error = Some(<<"Instrument not found">>)
               /\ r = 17 => call[c].error = Some(<<"Timeout">>)
               /\ r = 99 => call[c].error = Some(<<"Unknown error code: ", 99>>)
               /\ r = -1 => call[c].error = Some(call[c].botText)
               /\ call[c].botArg = Some(call[c].order_id)

\* C11 witness: a submit_order without an order_id got a code the table does
\* not hold and returned its rendering with the generated id.
C11_Witness ==
    \E c \in Callers :
        /\ call[c].op = "submit_order" /\ call[c].pc = "ret"
        /\ call[c].botResult = 99 /\ call[c].status = "error"
        /\ allocated # <<>> /\ call[c].order_id = allocated[Len(allocated)]

\* C12 as stated: every response of submit_order or cancel_order with status
\* error carries a non-empty description, and a response with status
\* submitted or cancelled carries none.
C12_ErrorHasDescription ==
    \A c \in Callers :
        (call[c].op \in {"submit_order", "cancel_order"} /\ call[c].pc = "ret") =>
            /\ call[c].status = "error" => (call[c].error # None /\ call[c].error[1] # <<>>)
            /\ call[c].status \in {"submitted", "cancelled"} => call[c].error = None

\* The step in which the Bot's submit call of caller c returns.
SubmitReturns(c) == call[c].pc = "bot_submit" /\ call'[c].pc = "ret"

\* The step that is a whole cancel_order call of caller c.
CancelReturns(c) == call[c].pc = "idle" /\ call'[c].op = "cancel_order"

\* C13 as stated: over the synthetic Bot, a submit_order with an order_id an
\* earlier submit_order used returns error "already exists" and leaves the
\* Bot's orders and position unchanged, after any submits and cancels.
C13_UsedIdRejected ==
    [][\A c \in Callers :
          (Stub /\ SubmitReturns(c) /\ call[c].order_id \in usedIds) =>
              /\ call'[c].status = "error"
              /\ call'[c].error = Some(<<"Order ID already exists">>)
              /\ UNCHANGED <<botOrders, botPosition>>]_vars

\* C13 as amended: over the synthetic Bot, a submit_order with an order_id
\* the Bot holds (submitted and not cancelled since) returns error "already
\* exists" and leaves orders and position unchanged; with an order_id the Bot
\* does not hold, also one that was used and cancelled, it is submitted.
C13_HeldIdRejected ==
    [][\A c \in Callers :
          (Stub /\ SubmitReturns(c)) =>
              IF \E o \in botOrders : o.order_id = call[c].order_id
              THEN /\ call'[c].status = "error"
                   /\ call'[c].error = Some(<<"Order ID already exists">>)
                   /\ UNCHANGED <<botOrders, botPosition>>
              ELSE /\ call'[c].status = "submitted"
                   /\ \E o \in botOrders' : o.order_id = call[c].order_id]_vars

\* C13 witness: over the synthetic Bot a submit_order with an id the Bot
\* holds has returned error "already exists".
C13_Witness ==
    \E c \in Callers :
        /\ Stub /\ call[c].op = "submit_order" /\ call[c].pc = "ret"
        /\ call[c].error = Some(<<"Order ID already exists">>)
        /\ \E o \in botOrders : o.order_id = call[c].order_id

\* C14 as stated: cancel_order raises nothing and returns cancelled, or else
\* error with a description "not found"; over the synthetic Bot it returns
\* cancelled iff the Bot holds the order.
C14_CancelledOrNotFound ==
    [][\A c \in Callers :
          CancelReturns(c) =>
              /\ call'[c].exc = "none"
              /\ \/ call'[c].status = "cancelled"
                 \/ /\ call'[c].status = "error"
                    /\ call'[c].error = Some(<<"Order not found">>)
                    /\ UNCHANGED botOrders]_vars

\* C14 as amended: cancel_order raises nothing; it returns cancelled iff the
\* Bot's cancel returned 0, error with the table's description for another
\* code ("Order not found" for 12) and error with the exception's text when
\* the Bot call raised; the synthetic Bot returns 0 iff it holds the order,
\* which it then removes, and 12 otherwise, leaving its orders unchanged.
C14_CancelResponse ==
    [][\A c \in Callers :
          CancelReturns(c) =>
              LET r == call'[c].botResult
                  oid == call'[c].order_id
                  held == \E o \in botOrders : o.order_id = oid
              IN /\ call'[c].exc = "none"
                 /\ (call'[c].status = "cancelled" /\ call'[c].error = None) <=> r = 0
                 /\ r # 0 => call'[c].status = "error"
                 /\ r = 12 => call'[c].error = Some(<<"Order not found">>)
                 /\ r = 17 => call'[c].error = Some(<<"Timeout">>)
                 /\ r = 99 => call'[c].error = Some(<<"Unknown error code: ", 99>>)
                 /\ r = -1 => call'[c].error = Some(call'[c].botText)
                 /\ botPosition' = botPosition
                 /\ Stub => /\ r = (IF held THEN 0 ELSE 12)
                            /\ botOrders' = {o \in botOrders : o.order_id # oid}
                            /\ ~held => botOrders' = botOrders]_vars

\* C14 witness: over the synthetic Bot a cancel_order of an order the Bot
\* held has returned cancelled and the Bot no longer holds it.
C14_Witness ==
    \E c \in Callers :
        /\ Stub /\ call[c].op = "cancel_order" /\ call[c].pc = "ret"
        /\ call[c].status = "cancelled"
        /\ call[c].order_id \in usedIds
        /\ ~\E o \in botOrders : o.order_id = call[c].order_id

\* ---------------------------------------------------- reader specifications
\* The envelope of the reader specifications: the consumer threads cs read
\* the channels, with and without waiting, while the started feed worker
\* pushes the trade and depth events the Bot reports on n assets; every
\* capacity is 1, and the history of what the reads returned is kept.
ReaderConfig(cs, n, bad) ==
    [callers |-> cs, maxStarts |-> OneStart, num_assets |-> n,
     trade_queue_size |-> 1, book_queue_size |-> 1, snapshot_queue_size |-> 1,
     on_connection_lost |-> FALSE, on_error |-> FALSE,
     waitResults |-> {0, 2},
     maxEvents |-> MaxEvents,
     evCodes |-> {DEPTH_EVENT, TRADE_EVENT},
     badEvents |-> bad,
     cbRaises |-> {FALSE},
     maxPasses |-> 0,
     feedSampled |-> {},
     orderSampled |-> {},
     sampleRaises |-> {FALSE},
     history |-> TRUE,
     maxGets |-> MaxGets]

\* Two consumer threads read concurrently, one of which started the client;
\* the feed worker is scheduled.
InitReaders ==
    /\ cfg = ReaderConfig(Callers, LifeAssets, {FALSE})
    /\ InitState

NextReaders ==
    \/ FeedWorker
    \/ StartCheck("c1", "start")
    \/ StartBody("c1")
    \/ \E c \in Callers :
          \/ \E ch \in {"trade", "book", "snapshot"} : GetNowait(c, ch)
          \/ \E ch \in {"trade", "book", "snapshot"} : GetBegin(c, ch)
          \/ GetTake(c)
          \/ GetTimeout(c)
          \/ Return(c)

SpecReaders ==
    /\ InitReaders
    /\ [][NextReaders]_vars
    /\ \A g \in Gens : WF_vars(FeedLoop(g) \/ FeedWaitReturn(g) \/ FeedEvent(g) \/ FeedClear(g))

\* One consumer thread over a Bot with several assets, some of whose events
\* cannot be processed: building the typed value of such an event, or the
\* Bot's depth accessor, raises.
InitRedeliver ==
    /\ cfg = ReaderConfig({"c1"}, NumAssets, {FALSE, TRUE})
    /\ InitState

SpecRedeliver == InitRedeliver /\ [][NextReaders]_vars

\* The Bot numbers the events it reports in the order it reports them, so a
\* sequence of dequeued events is a subsequence of the reported ones, in their
\* order and without repetition, exactly when its numbers strictly increase.
InReportedOrder(seq, a) ==
    \A i, j \in 1..Len(seq) :
        (i < j /\ seq[i].asset_no = a /\ seq[j].asset_no = a) => seq[i].id < seq[j].id

\* C15: for each asset and each channel, the events dequeued from the channel
\* are a subsequence, in the same order, of the events of that type the Bot
\* reported for the asset: nothing is reordered and nothing is returned twice.
C15_DequeuedInOrder ==
    \A ch \in {"trade", "book", "snapshot"} : \A a \in Assets :
        /\ InReportedOrder(consumed[ch], a)
        /\ \A i \in 1..Len(consumed[ch]) : Classify(consumed[ch][i].ev) = ch

\* c returns from the non-blocking read of channel ch in this step.
NowaitReturns(c, ch) ==
    /\ call[c].pc = "idle"
    /\ call'[c].pc = "ret"
    /\ call'[c].op = ch

\* A read of a channel that held q before and holds qAfter after returned
\* result: None from the empty channel, which it left alone, and otherwise
\* the oldest event, which it removed.
OldestTaken(q, qAfter, result) ==
    IF q = <<>>
    THEN result = None /\ qAfter = q
    ELSE result = Some(Head(q)) /\ qAfter = Tail(q)

\* No event is among the returned ones twice, nor returned and still queued.
EachReturnedOnce ==
    \A ch \in {"trade", "book", "snapshot"} :
        /\ \A i, j \in 1..Len(consumed[ch]) :
              i # j => consumed[ch][i].id # consumed[ch][j].id
        /\ \A i \in 1..Len(consumed[ch]), j \in 1..Len(Channel(ch)) :
              consumed[ch][i].id # Channel(ch)[j].id

BlockingReturns(c, ch) ==
    /\ call[c].pc = "get_wait"
    /\ call[c].channel = ch
    /\ call'[c].pc = "ret"

\* C17: a blocking read returns None only when its channel is still empty as
\* the timeout expires, and otherwise the oldest event, so an event pushed
\* while it waited is returned to it; and however long readers wait, the feed
\* worker goes on: every push it is at and every poll of the Bot completes.
C17_BlockingReads ==
    /\ [][\A c \in Callers :
            /\ BlockingReturns(c, "trade") => OldestTaken(tradeQ, tradeQ', call'[c].result)
            /\ BlockingReturns(c, "book") => OldestTaken(bookQ, bookQ', call'[c].result)
            /\ BlockingReturns(c, "snapshot") => OldestTaken(snapQ, snapQ', call'[c].result)]_vars
    /\ \A g \in Gens :
          /\ (fpc[g] = "proc") ~> (fpc[g] # "proc")
          /\ (fpc[g] = "wait") ~> (fpc[g] # "wait")

\* A blocking read that began on the empty trade channel returned an event,
\* pushed by the feed worker while the read waited.
C17_Witness ==
    \E c \in Callers :
        /\ call[c].pc = "ret"
        /\ call[c].op = "get_trade"
        /\ call[c].waitedOnEmpty
        /\ call[c].result # None

\* Worker g publishes the snapshot of its pass in this step.
Publishes(g) ==
    /\ hpc[g] = "publish"
    /\ hpc'[g] # "publish"

\* feed_latency(a) returned a sample in the pass whose outcomes are s.
FeedSampled(s, a) == ~s[a].feedRaise /\ s[a].feed # None

\* Some accessor raised while asset a was sampled in the pass.
SamplingRaised(s, a) == s[a].feedRaise \/ s[a].orderRaise

\* C18 as stated: the published snapshot has connected = true exactly when
\* some asset returned a feed-latency sample in the pass, where an asset
\* whose sampling raised an exception counts as having returned none.
C18_ConnectedIffSampledNoRaise ==
    [][\A g \in Gens :
          Publishes(g) =>
              (health'.connected <=>
                  \E a \in Assets : FeedSampled(hsamp[g], a) /\ ~SamplingRaised(hsamp[g], a))]_vars

\* C18: the published snapshot has connected = true exactly when feed_latency
\* returned a sample for some asset in the pass, whatever raised for other
\* assets before it, and whether or not order_latency raised for that asset
\* afterwards: an asset counts as no sample only if feed_latency itself
\* raised or returned None.
C18_ConnectedIffFeedSampled ==
    [][\A g \in Gens :
          Publishes(g) =>
              (health'.connected <=> \E a \in Assets : FeedSampled(hsamp[g], a))]_vars

\* A pass is about to publish connected = true although sampling asset 0
\* raised at feed_latency: asset 1 was still sampled and returned a feed
\* sample, after which its order_latency raised.
C18_Witness ==
    \E g \in Gens :
        /\ hpc[g] = "publish"
        /\ hsamp[g][0].feedRaise
        /\ FeedSampled(hsamp[g], 1)
        /\ hsamp[g][1].orderRaise
        /\ hnew[g].connected

\* ------------------------------------------- health snapshot in caller's hands
\* The started client's health worker samples one asset and publishes, with a
\* disconnect callback registered, while callers read the health property
\* and assign to the object they got.
AliasConfig ==
    [callers |-> Callers, maxStarts |-> OneStart, num_assets |-> LifeAssets,
     trade_queue_size |-> MaxCap, book_queue_size |-> MaxCap,
     snapshot_queue_size |-> MaxCap,
     on_connection_lost |-> TRUE, on_error |-> FALSE,
     waitResults |-> {0},
     maxEvents |-> 0,
     evCodes |-> {TRADE_EVENT},
     badEvents |-> {FALSE},
     cbRaises |-> {FALSE},
     maxPasses |-> MaxPasses,
     feedSampled |-> {0},
     orderSampled |-> {},
     sampleRaises |-> {FALSE}]

InitAlias ==
    /\ cfg = AliasConfig
    /\ InitState

NextAlias ==
    \/ HealthWorker
    \/ \E g \in Gens : FeedLoop(g) \/ FeedWaitReturn(g)
    \/ \E c \in Callers :
          \/ StartCheck(c, "start")
          \/ StartBody(c)
          \/ HealthReadBegin(c)
          \/ HealthRead(c)
          \/ \E v \in BOOLEAN : MutateSnapshot(c, v)
          \/ Return(c)

SpecAlias == InitAlias /\ [][NextAlias]_vars

\* c holds a snapshot it got from the health property, before and after
\* this step.
HoldsSnapshot(c) ==
    /\ call[c].op = "health" /\ call[c].pc = "ret"
    /\ call'[c].op = "health" /\ call'[c].pc = "ret"

\* The connected -> disconnected transitions in the sequence of snapshots the
\* passes published (the constructor's snapshot, number 0, is disconnected).
PublishedLosses ==
    Cardinality({p \in published :
                    /\ ~p.connected
                    /\ \E q \in published : q.pass = p.pass - 1 /\ q.connected})

\* C19: the health property returns the shared ConnectionHealth by value: a
\* pass of the health worker never changes a snapshot a caller holds, a change
\* a caller makes to its snapshot does not change the shared health, and so
\* the disconnect callback is invoked only for the transitions between the
\* snapshots the passes published.
C19_HealthByValue ==
    /\ [][\A c \in Callers :
            HoldsSnapshot(c) =>
                /\ (\E g \in Gens : Publishes(g)) => call'[c].snapshot = call[c].snapshot
                /\ call'[c].snapshot # call[c].snapshot => health' = health]_vars
    /\ [](lostCalls <= PublishedLosses)

\* ------------------------------------------------------------ depth snapshots
\* if level['ev'] & 0x01: the level is a bid, otherwise an ask.
IsBid(level) == BitAnd(level.ev, 1) # 0

\* BookLevel(price, qty)
BookLevel(level) == [price |-> level.px, qty |-> level.qty]

\* The loop over the listing: the levels of one side with qty > 0, in the
\* order of the listing.
RECURSIVE KeptLevels(_, _)
KeptLevels(snapshot, bid) ==
    IF snapshot = <<>> THEN <<>>
    ELSE IF Head(snapshot).qty > 0 /\ IsBid(Head(snapshot)) = bid
         THEN <<BookLevel(Head(snapshot))>> \o KeptLevels(Tail(snapshot), bid)
         ELSE KeptLevels(Tail(snapshot), bid)

\* list.sort(key=price, reverse=descending) is stable: a level goes before
\* the first level that sorts strictly after it, behind its equals.
RECURSIVE InsertLevel(_, _, _)
InsertLevel(sorted, l, descending) ==
    IF sorted = <<>> THEN <<l>>
    ELSE IF (IF descending THEN Head(sorted).price < l.price
                           ELSE Head(sorted).price > l.price)
         THEN <<l>> \o sorted
         ELSE <<Head(sorted)>> \o InsertLevel(Tail(sorted), l, descending)

RECURSIVE SortLevels(_, _, _)
SortLevels(acc, levels, descending) ==
    IF levels = <<>> THEN acc
    ELSE SortLevels(InsertLevel(acc, Head(levels), descending), Tail(levels), descending)

\* DepthSnapshot.from_depth(depth, timestamp, asset_no), depth.snapshot given.
DepthSnapshot_from_depth(snapshot, timestamp, asset_no) ==
    [timestamp |-> timestamp,
     bids |-> SortLevels(<<>>, KeptLevels(snapshot, TRUE), TRUE),
     asks |-> SortLevels(<<>>, KeptLevels(snapshot, FALSE), FALSE),
     asset_no |-> asset_no]

\* The level listings a depth can present: any levels in any order, with
\* zero quantities and with repeated prices.
Levels == [px : 1..MaxPrice, qty : 0..MaxQty, ev : {1, 2}]
Listings == UNION {[1..n -> Levels] : n \in 0..MaxLevels}

\* from_depth is applied to the listing of the behaviour.
FromDepth(c) ==
    /\ c \in cfg.callers
    /\ call[c].pc = "idle"
    /\ call' = [call EXCEPT ![c] =
                  [IdleCall EXCEPT !.op = "from_depth", !.pc = "ret",
                                   !.result = Some(DepthSnapshot_from_depth(cfg.depth, 0, 0))]]
    /\ UNCHANGED <<cfg, runnerVars, stubVars, histVars, clientVars, feedVars, healthVars, chanVars, botVars, orderVars>>

DepthConfig(listing) ==
    [callers |-> {"c1"}, num_assets |-> LifeAssets, depth |-> listing]

InitDepth ==
    /\ \E listing \in Listings : cfg = DepthConfig(listing)
    /\ InitState

NextDepth == \E c \in Callers : FromDepth(c) \/ Return(c)

SpecDepth == InitDepth /\ [][NextDepth]_vars

\* The prices of the levels strictly decrease (descending) or increase.
StrictlyOrdered(levels, descending) ==
    \A i \in 1..(Len(levels) - 1) :
        IF descending THEN levels[i].price > levels[i + 1].price
                      ELSE levels[i].price < levels[i + 1].price

\* C20: for every level listing, with zero-quantity levels and with two
\* levels at the same price on one side, from_depth gives bid levels strictly
\* descending by price, ask levels strictly ascending by price, and no level
\* with qty <= 0.
C20_StrictlySortedPositive ==
    \A c \in Callers :
        (call[c].op = "from_depth" /\ call[c].pc = "ret") =>
            LET d == call[c].result[1]
            IN /\ StrictlyOrdered(d.bids, TRUE)
               /\ StrictlyOrdered(d.asks, FALSE)
               /\ \A i \in 1..Len(d.bids) : d.bids[i].qty > 0
               /\ \A i \in 1..Len(d.asks) : d.asks[i].qty > 0

\* ------------------------------------------------------- typed event values
\* (mutant) the trade carries the local receive time of the raw event.
TradeStampedLocally(event, asset_no) ==
    [timestamp |-> event.local_ts, price |-> event.px, qty |-> event.qty,
     side |-> IF BitAnd(event.ev, 1) # 0 THEN "BUY" ELSE "SELL",
     asset_no |-> asset_no]

\* Trade.from_event(event, asset_no)
Trade_from_event(event, asset_no) ==
    [timestamp |-> event.exch_ts, price |-> event.px, qty |-> event.qty,
     side |-> IF BitAnd(event.ev, 1) # 0 THEN "BUY" ELSE "SELL",
     asset_no |-> asset_no]

\* BookUpdate.from_depth(depth, timestamp, asset_no)
BookUpdate_from_depth(depth, timestamp, asset_no) ==
    [timestamp |-> timestamp,
     bid_price |-> depth.best_bid, bid_qty |-> depth.best_bid_qty,
     ask_price |-> depth.best_ask, ask_qty |-> depth.best_ask_qty,
     asset_no |-> asset_no]

\* The body of "for i in range(len(trades))" on one raw event: the pushes it
\* attempts, each a channel and the typed value built for it.
PushAttempts(event, asset_no, depth) ==
    IF BitAnd(event.ev, TRADE_EVENT) # 0
    THEN << <<"trade", Trade_from_event(event, asset_no)>> >>
    ELSE IF BitAnd(event.ev, BitOr(DEPTH_EVENT, DEPTH_BBO_EVENT)) # 0
    THEN << <<"book", BookUpdate_from_depth(depth, event.exch_ts, asset_no)>> >>
    ELSE IF BitAnd(event.ev, DEPTH_SNAPSHOT_EVENT) # 0
    THEN << <<"snapshot", DepthSnapshot_from_depth(depth.snapshot, event.exch_ts, asset_no)>> >>
    ELSE <<>>

\* The raw events a Bot can report: any event-type value, the two clocks,
\* a price and a quantity.
RawEvents ==
    [ev : 0..MaxEv, exch_ts : 1..MaxStamp, local_ts : 1..MaxStamp,
     px : 1..MaxPrice, qty : 1..MaxQty]

\* The Bot's depth while the event is processed: its best bid and ask, and a
\* level listing.
DepthNow ==
    [best_bid |-> 1, best_bid_qty |-> 1, best_ask |-> 2, best_ask_qty |-> 1,
     snapshot |-> << [px |-> 1, qty |-> 1, ev |-> 1], [px |-> 2, qty |-> 1, ev |-> 2] >>]

\* One raw event of the behaviour's asset goes through the loop body.
ProcessEvent(c) ==
    /\ c \in cfg.callers
    /\ call[c].pc = "idle"
    /\ call' = [call EXCEPT ![c] =
                  [IdleCall EXCEPT !.op = "process_event", !.pc = "ret",
                                   !.result = PushAttempts(cfg.event, cfg.asset_no, cfg.depth)]]
    /\ UNCHANGED <<cfg, runnerVars, stubVars, histVars, clientVars, feedVars, healthVars, chanVars, botVars, orderVars>>

EventConfig(e, a) ==
    [callers |-> {"c1"}, num_assets |-> NumAssets, event |-> e, asset_no |-> a,
     depth |-> DepthNow]

InitEvents ==
    /\ \E e \in RawEvents, a \in 0..(NumAssets - 1) : cfg = EventConfig(e, a)
    /\ InitState

NextEvents == \E c \in Callers : ProcessEvent(c) \/ Return(c)

SpecEvents == InitEvents /\ [][NextEvents]_vars

\* c holds the push attempts of the behaviour's raw event.
Processed(c) == call[c].op = "process_event" /\ call[c].pc = "ret"

\* C21: for every raw event the feed worker classifies as a trade, the value
\* Trade.from_event builds has side Buy exactly when the event's buy flag
\* (bit 0x01) is set and Sell otherwise, the raw price and quantity, the raw
\* exchange timestamp, and the index of the asset the event was drained from.
C21_TradeFromEvent ==
    \A c \in Callers :
        (Processed(c) /\ Classify(cfg.event.ev) = "trade") =>
            /\ Len(call[c].result) = 1
            /\ call[c].result[1][1] = "trade"
            /\ LET t == call[c].result[1][2]
               IN /\ t.side = "BUY" <=> cfg.event.ev % 2 = 1
                  /\ t.side = "SELL" <=> cfg.event.ev % 2 = 0
                  /\ t.price = cfg.event.px
                  /\ t.qty = cfg.event.qty
                  /\ t.timestamp = cfg.event.exch_ts
                  /\ t.asset_no = cfg.asset_no

\* A trade event with the buy flag, drained from asset 1 and received later
\* than the exchange stamped it, became a Buy trade.
C21_Witness ==
    \E c \in Callers :
        /\ Processed(c)
        /\ cfg.event.ev = 3
        /\ cfg.asset_no = 1
        /\ cfg.event.local_ts # cfg.event.exch_ts
        /\ call[c].result[1][2].side = "BUY"

\* c holds what get_orders returned.
OrdersReturned(c) == call[c].op = "get_orders" /\ call[c].pc = "ret"

\* C22: get_orders returns a mapping whose keys are exactly the order ids the
\* Bot holds at that moment, after any submits and cancels, each entry keyed
\* by its own order_id and carrying side, price, qty, leaves_qty and status
\* of the held order; if the Bot's accessor or iterator raised it returns the
\* empty mapping (and returns: it does not raise).
C22_OrdersMapping ==
    \A c \in Callers :
        OrdersReturned(c) =>
            IF call[c].botText # None
            THEN DOMAIN call[c].result = {}
            ELSE /\ DOMAIN call[c].result = StubOrderIds(botOrders)
                 /\ \A id \in DOMAIN call[c].result :
                       LET e == call[c].result[id]
                       IN /\ e.order_id = id
                          /\ DOMAIN e = {"order_id", "side", "price", "qty",
                                         "leaves_qty", "status"}
                          /\ \E o \in botOrders :
                                /\ o.order_id = id
                                /\ e.side = "buy" <=> o.side = "BUY"
                                /\ e.side = "sell" <=> o.side = "SELL"
                                /\ e.price = o.price /\ e.qty = o.qty
                                /\ e.leaves_qty = o.leaves_qty
                                /\ e.status = o.status

\* get_orders returned the one order left after two submits and a cancel.
C22_Witness ==
    \E c \in Callers :
        /\ OrdersReturned(c)
        /\ call[c].botText = None
        /\ Cardinality(usedIds) = 2
        /\ Cardinality(DOMAIN call[c].result) = 1

\* ------------------------------------------------ tests of the synthetic Bot
StubTestConfig(kind) ==
    [callers |-> {}, num_assets |-> LifeAssets, test |-> kind,
     seed |-> Some(123), polls |-> MaxPolls, runs |-> 2]

\* test_stub_max_feeds on a fresh, unseeded instance.
InitMaxFeeds ==
    /\ cfg = StubTestConfig("max_feeds")
    /\ InitState

NextMaxFeeds == MaxFeedsBuild \/ MaxFeedsPoll

SpecMaxFeeds == InitMaxFeeds /\ [][NextMaxFeeds]_vars

\* C23: polling a fresh StubConnectorBot until wait_next_feed first returns
\* EndOfData (1) takes n polls with n < 1000 (and n < 1020), whatever the
\* random draws are.
C23_EndOfDataBefore1000 ==
    (test.pc = "done" /\ test.result = 1) => (1000 > test.n /\ test.n < 1020)

\* test_stub_respects_seed, run twice.
InitSeed ==
    /\ cfg = StubTestConfig("seed")
    /\ InitState

NextSeed ==
    \/ \E b \in StubNames : SeedBuild(b) \/ SeedPoll(b)
    \/ SeedTally
    \/ SeedRerun

SpecSeed == InitSeed /\ [][NextSeed]_vars

\* Running the test again with the same seed reproduces the counts.
RerunReproduces ==
    (test.pc = "done" /\ test.run > 1) => test.counts = test.previous

\* C24: two stub instances constructed with the same seed and polled the
\* same number of times, alternately, generate the same number of events,
\* and a run repeated with the same seed reproduces the same counts.
C24_SameSeedSameCount ==
    /\ test.pc = "done" => test.counts["bot1"] = test.counts["bot2"]
    /\ RerunReproduces

\* ---------------------------------------------------------------------------
\* The feed worker with an error callback
\* ---------------------------------------------------------------------------

\* A client with on_error registered over a Bot with several assets that
\* reports timeouts, the end of the data, market feeds and an unrecognised
\* code, and whose wait_next_feed may raise. The callback may raise, and so
\* may the processing of an event.
ErrorConfig ==
    [callers |-> {"c1"}, maxStarts |-> OneStart, num_assets |-> NumAssets,
     trade_queue_size |-> 1, book_queue_size |-> 1, snapshot_queue_size |-> 1,
     on_connection_lost |-> FALSE, on_error |-> TRUE,
     waitResults |-> {-1, 0, 1, 2, 99},
     maxEvents |-> ErrEvents,
     evCodes |-> {DEPTH_EVENT, TRADE_EVENT},
     badEvents |-> {FALSE, TRUE},
     cbRaises |-> {FALSE, TRUE},
     maxPasses |-> 0,
     feedSampled |-> {},
     orderSampled |-> {},
     sampleRaises |-> {FALSE},
     history |-> TRUE,
     maxGets |-> MaxGets,
     maxErrors |-> MaxErrors]

InitErrors ==
    /\ cfg = ErrorConfig
    /\ InitState

NextErrors ==
    \/ FeedWorker
    \/ \E g \in Gens : HealthSample(g)
    \/ \E c \in Callers :
          \/ StartCheck(c, "start")
          \/ StartBody(c)
          \/ StopEnter(c, "stop")
          \/ StopJoinFeed(c)
          \/ StopJoinHealth(c)
          \/ \E ch \in {"trade", "book", "snapshot"} : GetNowait(c, ch)
          \/ Return(c)

SpecErrors == InitErrors /\ [][NextErrors]_vars

\* Feed worker g's call of wait_next_feed returns in this step.
WaitReturns(g) == fpc[g] = "wait" /\ fpc'[g] # "wait"

\* A push into a channel is attempted in this step.
PushAttempted ==
    \/ pushedOnce' # pushedOnce
    \/ pushedAgain' # pushedAgain
    \/ dropped' # dropped
    \/ \E ch \in {"trade", "book", "snapshot"} : Len(Channel(ch)') > Len(Channel(ch))

\* Feed worker g handles one event of its buffer in this step.
HandlesEvent(g) == fpc[g] = "proc" /\ fidx'[g] = fidx[g] + 1

\* C25: when wait_next_feed returns EndOfData the feed worker terminates
\* without raising and without invoking the error callback, and it pushes
\* nothing into a channel from then on: a terminated worker never moves again,
\* and every push attempt is made by a worker that is processing its buffer.
C25_EndOfDataEndsWorker ==
    [][/\ \A g \in Gens :
            /\ WaitReturns(g) /\ lastResult'[g] = 1
                  => /\ fpc'[g] = "done"
                     /\ errorCalls' = errorCalls
                     /\ ~PushAttempted
            /\ fpc[g] = "done"
                  => /\ fpc'[g] = "done"
                     /\ <<fasset'[g], fbuf'[g], fidx'[g]>> = <<fasset[g], fbuf[g], fidx[g]>>
       /\ PushAttempted => \E g \in Gens : HandlesEvent(g)]_vars

\* The worker ended on EndOfData without a stop request, while raw events it
\* never processed are still in the Bot's buffers.
C25_Witness ==
    \E g \in Gens :
        /\ fpc[g] = "done"
        /\ lastResult[g] = 1
        /\ ~stopEvent
        /\ errorCalls = 0
        /\ \E a \in Assets : raw[a] # <<>>

\* C26: when wait_next_feed returns an unrecognised code and an error callback
\* is registered, the callback is invoked exactly once for that return, no
\* event is pushed for it, and the worker is back at its loop, where it polls
\* the Bot again unless stop was requested.
C26_ErrorCodeCallsBackOnce ==
    [][\A g \in Gens :
          WaitReturns(g) /\ lastResult'[g] \notin {-1, 0, 1, 2, 3} /\ cfg.on_error
             => /\ errorCalls' = errorCalls + 1
                /\ ~PushAttempted
                /\ fpc'[g] = "loop"]_vars

\* Worker g is at an event of its buffer whose processing raises.
AtBadEvent(g) ==
    /\ fpc[g] = "proc"
    /\ fidx[g] <= Len(fbuf[g])
    /\ fbuf[g][fidx[g]].bad
    /\ Classify(fbuf[g][fidx[g]].ev) # "none"

\* Worker g takes a step of its own.
FeedMoves(g) ==
    <<fpc'[g], fasset'[g], fbuf'[g], fidx'[g]>> # <<fpc[g], fasset[g], fbuf[g], fidx[g]>>

\* C29: when processing asset i's events raises during a MarketFeedReady
\* pass, the pass goes on with asset i + 1 (and so with every later asset),
\* whose buffer it fetches; the error callback is not invoked and the
\* worker keeps running.
C29_PassGoesOnAfterRaise ==
    [][\A g \in Gens :
          AtBadEvent(g) /\ FeedMoves(g)
             => /\ errorCalls' = errorCalls
                /\ FeedAlive(g)'
                /\ fasset[g] + 1 < cfg.num_assets
                      => /\ fpc'[g] = "proc"
                         /\ fasset'[g] = fasset[g] + 1
                         /\ fbuf'[g] = raw[fasset[g] + 1]]_vars

\* Asset 0's processing raised and the same pass pushed an event of asset 1.
C29_Witness ==
    \E g \in Gens :
        /\ cfg.on_error
        /\ errorCalls = 0
        /\ fpc[g] = "proc"
        /\ fasset[g] = 1
        /\ fidx[g] > 1
        /\ raw[0] # <<>>
        /\ raw[0][1].bad
        /\ fbuf[g][1].id \in pushedOnce

\* C27: each raw event is drained once: no raw event gets a push attempt in
\* two different MarketFeedReady passes, also when the processing of its
\* asset raised part-way through the buffer. (Within one pass an event is
\* handled once, so a second attempt belongs to a later pass.)
C27_DrainedOnce == pushedAgain = {}

\* The channels the push attempts of c's processed event went to.
ChannelsPushed(c) == {call[c].result[i][1] : i \in 1..Len(call[c].result)}

\* C28: on MarketFeedReady a raw event gets at most one push attempt, into the
\* channel matching its event type: a TRADE_EVENT into the Trade channel only,
\* a DEPTH_EVENT or DEPTH_BBO_EVENT into the BookUpdate channel only, tagged
\* with the event's exchange timestamp, and a DEPTH_SNAPSHOT_EVENT into the
\* Snapshot channel only, never into the BookUpdate channel.
C28_PushedByEventType ==
    \A c \in Callers :
        Processed(c) =>
            /\ Len(call[c].result) <= 1
            /\ cfg.event.ev = TRADE_EVENT => ChannelsPushed(c) = {"trade"}
            /\ cfg.event.ev \in {DEPTH_EVENT, DEPTH_BBO_EVENT}
                  => /\ ChannelsPushed(c) = {"book"}
                     /\ call[c].result[1][2].timestamp = cfg.event.exch_ts
            /\ cfg.event.ev = DEPTH_SNAPSHOT_EVENT => ChannelsPushed(c) = {"snapshot"}

\* ---------------------------------------------------------------------------
\* The workers after stop()
\* ---------------------------------------------------------------------------

\* The lifecycle with both worker threads scheduled: a worker that can take
\* a step eventually takes it. For the feed worker this includes the return of
\* the Bot's wait_next_feed, for the health worker the return of the
\* on_connection_lost callback.
SpecStopFair ==
    /\ Init
    /\ [][Next]_vars
    /\ \A g \in Gens :
          /\ WF_vars(FeedLoop(g) \/ FeedWaitReturn(g) \/ FeedEvent(g) \/ FeedClear(g))
          /\ WF_vars(HealthSample(g) \/ HealthPublish(g) \/ HealthCallbackReturn(g))

\* Worker threads g have ended.
WorkersEnded(g) == ~FeedAlive(g) /\ hpc[g] = "done"

\* While the stop signal is up no feed worker begins a call of wait_next_feed
\* and no health worker begins a sampling pass. (A call is in flight from the
\* loop test that admitted it.)
NothingBegunAfterStop ==
    [][stopEvent =>
         \A g \in Gens :
            /\ ~(fpc[g] # "wait" /\ fpc'[g] = "wait")
            /\ ~(hpc[g] = "loop" /\ hpc'[g] = "publish")]_vars

Polls(pid) == IF procs[pid] = "running" THEN None ELSE Some(1)

\* ConnectorRunner.is_running
IsRunning == IF process = None THEN FALSE ELSE Polls(process[1]) = None

\* ConnectorRunner.start. spawn is what subprocess.Popen does ("ok", or it
\* raises FileNotFoundError or another OSError); died says that the child has
\* exited when start() polls it after its half second of sleep.
RunnerStart(c, spawn, died) ==
    /\ c \in cfg.callers
    /\ call[c].pc = "idle"
    /\ LET me == [IdleCall EXCEPT !.op = "runner_start", !.pc = "ret"]
           pid == Len(procs) + 1
       IN IF process # None
          THEN /\ call' = [call EXCEPT ![c] = [me EXCEPT !.exc = "ConnectorRunnerError"]]
               /\ UNCHANGED runnerVars
          ELSE IF ~cfg.binary_exists
          THEN /\ call' = [call EXCEPT ![c] = [me EXCEPT !.exc = "ConnectorNotFoundError"]]
               /\ UNCHANGED runnerVars
          ELSE IF spawn # "ok"
          THEN /\ call' = [call EXCEPT ![c] =
                             [me EXCEPT !.exc = IF spawn = "FileNotFoundError"
                                                THEN "ConnectorNotFoundError"
                                                ELSE "ConnectorStartupError"]]
               /\ UNCHANGED runnerVars
          ELSE /\ pid <= cfg.maxSpawns
               /\ process' = Some(pid)
               /\ procs' = Append(procs, IF died THEN "exited" ELSE "running")
               /\ signals' = Append(signals, <<>>)
               /\ call' = [call EXCEPT ![c] =
                             [me EXCEPT !.exc = IF died THEN "ConnectorStartupError"
                                                ELSE "none"]]
    /\ UNCHANGED <<cfg, clientVars, feedVars, healthVars, chanVars, botVars, orderVars,
                   stubVars, histVars>>

\* The connector process exits on its own.
ProcessExits(pid) ==
    /\ pid \in DOMAIN procs
    /\ procs[pid] = "running"
    /\ procs' = [procs EXCEPT ![pid] = "exited"]
    /\ UNCHANGED <<cfg, clientVars, feedVars, healthVars, chanVars, botVars, orderVars,
                   stubVars, histVars, call, process, signals>>

\* (mutant) the handle is dropped only when stopping went through.
HandleKeptOnError(outcome) == IF outcome = "error" THEN process ELSE None

\* finally: self.process = None
HandleAfterStop(outcome) == None

\* ConnectorRunner.stop up to terminate(): no process, a process that has
\* already exited, or SIGTERM is sent (raises says that terminate() raised).
RunnerStopBegin(c, raises) ==
    /\ c \in cfg.callers
    /\ call[c].pc = "idle"
    /\ LET me == [IdleCall EXCEPT !.op = "runner_stop", !.pc = "ret"]
       IN IF process = None
          THEN /\ call' = [call EXCEPT ![c] = [me EXCEPT !.trace = <<"no process">>]]
               /\ UNCHANGED runnerVars
          ELSE IF ~IsRunning
          THEN /\ call' = [call EXCEPT ![c] = [me EXCEPT !.trace = <<"already stopped">>]]
               /\ process' = None
               /\ UNCHANGED <<procs, signals>>
          ELSE IF raises
          THEN /\ call' = [call EXCEPT ![c] = [me EXCEPT !.trace = <<"error">>]]
               /\ process' = HandleAfterStop("error")
               /\ UNCHANGED <<procs, signals>>
          ELSE /\ call' = [call EXCEPT ![c] = [me EXCEPT !.pc = "runner_wait"]]
               /\ signals' = [signals EXCEPT ![process[1]] = Append(@, "terminate")]
               /\ UNCHANGED <<process, procs>>
    /\ UNCHANGED <<cfg, clientVars, feedVars, healthVars, chanVars, botVars, orderVars,
                   stubVars, histVars>>

\* self.process.wait(timeout=timeout) ends: the process has exited
\* ("graceful"), or the timeout ran out with the process still there and it
\* is killed ("killed"; "kill_failed" when the wait of 5 s after the kill
\* times out too), or waiting raised ("error").
RunnerStopWait(c, outcome) ==
    /\ call[c].pc = "runner_wait"
    /\ LET pid == process[1]
       IN /\ outcome = "graceful" => procs[pid] = "exited"
          /\ outcome \in {"killed", "kill_failed"} => procs[pid] = "running"
          /\ signals' = IF outcome \in {"killed", "kill_failed"}
                        THEN [signals EXCEPT ![pid] = Append(@, "kill")]
                        ELSE signals
          /\ procs' = IF outcome = "killed" THEN [procs EXCEPT ![pid] = "exited"] ELSE procs
    /\ process' = HandleAfterStop(outcome)
    /\ call' = [call EXCEPT ![c].pc = "ret", ![c].trace = <<outcome>>]
    /\ UNCHANGED <<cfg, clientVars, feedVars, healthVars, chanVars, botVars, orderVars,
                   stubVars, histVars>>

RunnerConfig(binary) ==
    [callers |-> {"c1"}, num_assets |-> LifeAssets, binary_exists |-> binary,
     maxSpawns |-> MaxSpawns]

InitRunner ==
    /\ \E binary \in BOOLEAN : cfg = RunnerConfig(binary)
    /\ InitState

NextRunner ==
    \/ \E c \in Callers :
          \/ \E spawn \in {"ok", "FileNotFoundError", "OSError"}, died \in BOOLEAN :
                RunnerStart(c, spawn, died)
          \/ \E raises \in BOOLEAN : RunnerStopBegin(c, raises)
          \/ \E outcome \in {"graceful", "killed", "kill_failed", "error"} :
                RunnerStopWait(c, outcome)
          \/ Return(c)
    \/ \E pid \in 1..MaxSpawns : ProcessExits(pid)

SpecRunner == InitRunner /\ [][NextRunner]_vars

\* Caller c's stop() returns in this step.
RunnerStopReturns(c) ==
    /\ call'[c].op = "runner_stop"
    /\ call'[c].pc = "ret"
    /\ call[c].pc # "ret"

\* A signal is sent to process pid in this step.
Signalled(pid) == pid \in DOMAIN signals /\ signals'[pid] # signals[pid]

\* C31: stop() on a running connector process first sends terminate and sends
\* kill only if the process has not exited when the wait for the shutdown
\* timeout ends; on every path (graceful exit, forced kill, error while
\* stopping, process already dead) it returns with process = None, so that
\* is_running() is false and a later start() is not rejected as already
\* running; stop() on a runner without a process changes nothing.
C31_StopLeavesNoProcess ==
    [][\A c \in Callers :
          /\ RunnerStopReturns(c)
                => /\ process' = None
                   /\ ~IsRunning'
                   /\ process = None => UNCHANGED runnerVars
          /\ call'[c].op = "runner_start" /\ call[c].pc = "idle" /\ process = None
                => call'[c].exc # "ConnectorRunnerError"
          /\ \A pid \in 1..MaxSpawns :
                Signalled(pid)
                   => /\ signals'[pid] \in {<<"terminate">>, <<"terminate", "kill">>}
                      /\ procs[pid] = "running"
                      /\ process = Some(pid)]_vars

\* A stop() that had to kill the process has returned and the runner holds
\* no handle.
C31_Witness ==
    \E c \in Callers :
        /\ call[c].op = "runner_stop"
        /\ call[c].pc = "ret"
        /\ call[c].trace = <<"killed">>
        /\ process = None
        /\ \E pid \in DOMAIN signals : signals[pid] = <<"terminate", "kill">>

\* C39: a start() that fails (binary missing, spawn error, or the spawned
\* process exited immediately) leaves the runner without a process handle.
C39_FailedStartLeavesNoHandle ==
    \A c \in Callers :
        (call[c].op = "runner_start" /\ call[c].pc = "ret"
            /\ call[c].exc \in {"ConnectorNotFoundError", "ConnectorStartupError"})
           => process = None

\* The feed worker threads that are alive.
FeedWorkersAlive == {g \in Gens : FeedAlive(g)}

\* C32: at any time at most one feed worker thread of a client is alive,
\* over every sequence of start() and stop() calls by one caller, also after
\* a stop() that returned on its join timeout with the old worker still
\* inside wait_next_feed and was followed by start().
C32_OneFeedWorkerAlive == Cardinality(FeedWorkersAlive) <= 1

\* ---------------------------------------------------------------------------
\* Two threads call start()
\* ---------------------------------------------------------------------------

\* Two caller threads share one client; nobody calls stop().
RaceConfig ==
    [callers |-> Callers, maxStarts |-> MaxStarts, num_assets |-> LifeAssets,
     trade_queue_size |-> 1, book_queue_size |-> 1, snapshot_queue_size |-> 1,
     on_connection_lost |-> FALSE, on_error |-> FALSE,
     waitResults |-> {0, 1, 2},
     maxEvents |-> LifeEvents,
     evCodes |-> {DEPTH_EVENT, TRADE_EVENT},
     badEvents |-> {FALSE},
     cbRaises |-> {FALSE},
     maxPasses |-> 0,
     feedSampled |-> {},
     orderSampled |-> {},
     sampleRaises |-> {FALSE}]

InitRace ==
    /\ cfg = RaceConfig
    /\ InitState

NextRace ==
    \/ FeedWorker
    \/ \E c \in Callers :
          \/ StartCheck(c, "start")
          \/ StartBody(c)
          \/ Return(c)

SpecRace == InitRace /\ [][NextRace]_vars

\* C33: when two threads call start() on a client that is not running, the
\* running check and the spawn are atomic with respect to each other: only
\* one call gets past the check, the other raises LiveClientError, and in
\* total one feed worker and one health worker are spawned.
C33_OneStartWins ==
    /\ Spawned <= 1
    /\ Cardinality({g \in Gens : hpc[g] # "unborn"}) <= 1
    /\ \A c, d \in Callers :
          (c # d /\ call[c].op = "start" /\ call[d].op = "start"
              /\ call[c].pc = "ret" /\ call[c].exc = "none" /\ call[d].pc # "idle")
             => call[d].pc = "ret" /\ call[d].exc = "LiveClientError"

\* C34: the health worker does not hold the health lock while it invokes the
\* disconnect callback, so that a read of client.health by the callback, or
\* by another thread while the callback runs, can take the lock.
C34_CallbackOutsideLock ==
    \A g \in Gens : hpc[g] = "callback" => healthLock = NoThread

\* Snapshot h is internally consistent.
ConsistentHealth(h) ==
    /\ h.connected <=> h.feed_latency_ns # None
    /\ h.connected <=> h.last_feed_time # None
    /\ h.order_latency_ns # None <=> h.last_order_time # None

\* C37: every snapshot the health worker publishes is internally consistent:
\* connected is true iff feed_latency_ns is set iff last_feed_time is set, and
\* order_latency_ns is set iff last_order_time is set; the snapshot the
\* constructor built, which is in place until the first pass publishes, has
\* connected false and the four optional fields unset.
C37_SnapshotsConsistent ==
    /\ \A h \in published \cup {health} : ConsistentHealth(h)
    /\ published = {} =>
          /\ ~health.connected
          /\ health.feed_latency_ns = None /\ health.last_feed_time = None
          /\ health.order_latency_ns = None /\ health.last_order_time = None

\* Published so far: a connected snapshot without order fields, taken in a
\* pass in which an order accessor raised, and a disconnected snapshot with
\* the order fields set.
C37_Witness ==
    /\ \E h \in published :
          h.connected /\ h.feed_latency_ns # None /\ h.order_latency_ns = None
    /\ \E h \in published :
          ~h.connected /\ h.last_feed_time = None /\ h.last_order_time # None
    /\ \E g \in Gens : hsamp[g] # <<>> /\ \E a \in Assets : hsamp[g][a].orderRaise

\* ---------------------------------------------------------------------------
\* The health worker with a disconnect callback that raises
\* ---------------------------------------------------------------------------

\* The health specification, where the disconnect callback either returns or
\* raises whenever it is invoked.
InitHealthRaise ==
    /\ \E r \in BOOLEAN : cfg = HealthConfig @@ [lostRaises |-> r]
    /\ InitState

SpecHealthRaise == InitHealthRaise /\ [][NextHealth]_vars

\* C38: the health worker terminates only after the stop signal is set:
\* neither an exception of the Bot's accessors nor one of the disconnect
\* callback ends it; and when the callback is invoked, also one that raises,
\* the disconnected snapshot of that pass is already published, so that the
\* callback is invoked only by a pass that found the previous snapshot
\* connected, not again by the next pass.
C38_HealthWorkerOutlivesErrors ==
    /\ [][\A g \in Gens :
            /\ (hpc[g] # "done" /\ hpc'[g] = "done") => stopEvent
            /\ hpc[g] = "callback" => hpc'[g] \in {"callback", "loop"}
            /\ (hpc[g] # "callback" /\ hpc'[g] = "callback")
                  => /\ health.connected
                     /\ ~health'.connected
                     /\ health' \in published'
                     /\ lostCalls' = lostCalls + 1]_vars
    /\ [](lostCalls <= lostEdges)

\* The callback raised when the connection was lost, and the next pass, which
\* found the feed still disconnected, published without invoking it again.
C38_Witness ==
    /\ CallbackRaises
    /\ lostCalls = 1
    /\ ~health.connected
    /\ \A g \in Gens : hpc[g] # "callback"
    /\ \E p, q \in published :
          /\ q.pass + 2 = health.pass /\ q.connected
          /\ p.pass + 1 = health.pass /\ ~p.connected

\* The order ids the caller supplied explicitly to submit_order calls that
\* have reached the Bot.
ExplicitIds == usedIds \ {allocated[i] : i \in 1..Len(allocated)}

\* C35: an auto-assigned order id never equals an order id the caller earlier
\* supplied explicitly to submit_order on the same client.
C35_AutoIdAvoidsExplicitIds ==
    [][\A c \in Callers :
          (call[c].pc = "gen_incr" /\ call'[c].pc = "bot_submit")
             => call'[c].order_id \notin ExplicitIds]_vars

\* C36: the feed worker leaves its loop only when the stop signal is set or
\* the Bot reports EndOfData: no exception of the Bot's wait call, of event
\* processing or of the registered error callback ends the worker thread.
C36_WorkerEndsOnlyOnStopOrEndOfData ==
    [][\A g \in Gens :
          (FeedAlive(g) /\ ~FeedAlive(g)')
             => \/ fpc[g] = "loop" /\ stopEvent /\ fpc'[g] = "done"
                \/ WaitReturns(g) /\ lastResult'[g] = 1 /\ fpc'[g] = "done"]_vars

====
